---- MODULE Spec2Model ----
(***************************************************************************)
(* TecnicoFS: the in-memory file system of p1/tecnicofs (state.c,          *)
(* operations.c) and the session server of p2/tecnicofs_ex2 (tfs_server.c).*)
(*                                                                         *)
(* Storage is modelled in cells: one cell is one byte of fs_data and is    *)
(* wide enough to hold a block index, so an int entry of an indirect block *)
(* occupies one cell and INDIR_BLOCK_SIZE = BLOCK_SIZE / sizeof(int)       *)
(* becomes BLOCK_SIZE.  File bytes and indirect entries share fs_data, as  *)
(* in the code; directory entries are kept in a typed view of the blocks   *)
(* (dir_view), so a byte stored into a directory's block is recorded in    *)
(* fs_data but is not decoded as a dir_entry_t.                            *)
(*                                                                         *)
(* Every library call is a sequence of steps (one per critical section or  *)
(* unprotected access); Step executes one step of a call, Run executes a   *)
(* call to its return.  The sequential specifications apply Run, the       *)
(* concurrent ones interleave Step.                                        *)
(***************************************************************************)
EXTENDS Integers, Sequences, FiniteSets, TLC

\* ------------------------------------------------------------------------
\* Sizes (config.h is not part of the sources: scaled-down values)
\* ------------------------------------------------------------------------
BLOCK_SIZE == 2

MAX_FILE_BLOCKS == 2

INDIR_BLOCK_SIZE == BLOCK_SIZE

DATA_BLOCKS == 8

INODE_TABLE_SIZE == 4

MAX_OPEN_FILES == 2

MAX_FILE_NAME == 3

MAX_DIR_ENTRIES == BLOCK_SIZE

ROOT_DIR_INUM == 0

\* allocation_state_t
FREE == 0

TAKEN == 1

\* inode_type
T_FILE == 0

T_DIRECTORY == 1

\* tfs_open flags
TFS_O_CREAT == 1

TFS_O_TRUNC == 2

TFS_O_APPEND == 4

\* size_t arithmetic wraps; the width is narrowed so that TLC can compute it
SIZE_BITS == 16

SizeMod == 2 ^ SIZE_BITS

MemSize == BLOCK_SIZE * DATA_BLOCKS

Min(a, b) == IF a < b THEN a ELSE b

\* a faulty variant of the test below: every flag counts as set
HasFlag_always(flags, bit) == TRUE

\* flags & bit, for a bit that is a power of two
HasFlag(flags, bit) == (flags \div bit) % 2 = 1

\* ------------------------------------------------------------------------
\* Validity checks of state.c
\* ------------------------------------------------------------------------
valid_inumber(inumber) == inumber >= 0 /\ inumber < INODE_TABLE_SIZE

valid_block_number(block_number) == block_number >= 0 /\ block_number < DATA_BLOCKS

valid_file_handle(file_handle) == file_handle >= 0 /\ file_handle < MAX_OPEN_FILES

\* a path is a sequence of characters
valid_pathname(name) == Len(name) > 1 /\ name[1] = "/"

\* strncmp(a, b, n) == 0
StrnEq(a, b, n) == SubSeq(a, 1, Min(Len(a), n)) = SubSeq(b, 1, Min(Len(b), n))

\* strncpy(dst, src, n) followed by dst[n] = 0
StrnCpy(src, n) == SubSeq(src, 1, Min(Len(src), n))

\* ------------------------------------------------------------------------
\* The state of the file system: the static tables of state.c and the locks
\* ------------------------------------------------------------------------
ZeroInode ==
    [i_node_type |-> T_FILE, i_size |-> 0,
     i_data_blocks |-> [k \in 0..MAX_FILE_BLOCKS-1 |-> 0],
     i_curr_block |-> 0, i_indir_block |-> 0, i_curr_indir |-> 0]

NoLock == [w |-> 0, r |-> {}]

ZeroState ==
    [freeinode_ts |-> [i \in 0..INODE_TABLE_SIZE-1 |-> FREE],
     inode_table |-> [i \in 0..INODE_TABLE_SIZE-1 |-> ZeroInode],
     fs_data |-> [a \in 0..MemSize-1 |-> 0],
     free_blocks |-> [b \in 0..DATA_BLOCKS-1 |-> FREE],
     dir_view |-> [b \in 0..DATA_BLOCKS-1 |->
                     [e \in 0..MAX_DIR_ENTRIES-1 |-> [d_name |-> <<>>, d_inumber |-> 0]]],
     open_file_table |-> [h \in 0..MAX_OPEN_FILES-1 |->
                     [of_inumber |-> 0, of_read_offset |-> 0, of_write_offset |-> 0]],
     free_open_file_entries |-> [h \in 0..MAX_OPEN_FILES-1 |-> FREE],
     i_lock |-> [i \in 0..INODE_TABLE_SIZE-1 |-> NoLock],
     of_lock |-> [h \in 0..MAX_OPEN_FILES-1 |-> NoLock],
     fs_rwlock |-> 0]

\* first index of tbl (0..n-1) that is FREE, -1 when there is none
FirstFree(tbl, n) ==
    IF \E i \in 0..n-1 : tbl[i] = FREE
    THEN CHOOSE i \in 0..n-1 : tbl[i] = FREE /\ \A j \in 0..i-1 : tbl[j] # FREE
    ELSE -1

\* pthread_rwlock_rdlock / wrlock would not block thread me
CanRd(l, me) == l.w = 0

CanWr(l, me) == l.w = 0 /\ l.r = {}

\* ------------------------------------------------------------------------
\* Block store
\* ------------------------------------------------------------------------
\* a faulty variant of the allocation below: the block is not marked TAKEN
data_block_alloc_unmarked(s) ==
    [s |-> s, ret |-> FirstFree(s.free_blocks, DATA_BLOCKS)]

data_block_alloc(s) ==
    LET i == FirstFree(s.free_blocks, DATA_BLOCKS) IN
    IF i = -1 THEN [s |-> s, ret |-> -1]
    ELSE [s |-> [s EXCEPT !.free_blocks[i] = TAKEN], ret |-> i]

data_block_free(s, block_number) ==
    IF ~valid_block_number(block_number) THEN [s |-> s, ret |-> -1]
    ELSE [s |-> [s EXCEPT !.free_blocks[block_number] = FREE], ret |-> 0]

\* the cell at address a of fs_data; a read outside the array is undefined
\* and yields the value ub
Mem(s, a, ub) == IF a >= 0 /\ a < MemSize THEN s.fs_data[a] ELSE ub

\* temp[k] of the int array that starts at block b
IndirGet(s, b, k, ub) == Mem(s, b * BLOCK_SIZE + k, ub)

\* temp[k] = v; a store outside the array is dropped
IndirSet(s, b, k, v) ==
    LET a == b * BLOCK_SIZE + k IN
    IF a >= 0 /\ a < MemSize THEN [s EXCEPT !.fs_data[a] = v] ELSE s

OutOfMem(b, k) == LET a == b * BLOCK_SIZE + k IN a < 0 \/ a >= MemSize

\* ------------------------------------------------------------------------
\* Inode table
\* ------------------------------------------------------------------------
\* inode_create, the section under fs_rwlock that takes the first free slot;
\* a file inode is initialised in the same section
inode_create_scan(s, n_type) ==
    LET inumber == FirstFree(s.freeinode_ts, INODE_TABLE_SIZE) IN
    IF inumber = -1 THEN [s |-> s, ret |-> -1]
    ELSE IF n_type = T_DIRECTORY
    THEN [s |-> [s EXCEPT !.freeinode_ts[inumber] = TAKEN,
                          !.inode_table[inumber].i_node_type = n_type],
          ret |-> inumber]
    ELSE [s |-> [s EXCEPT !.freeinode_ts[inumber] = TAKEN,
                          !.i_lock[inumber] = NoLock,
                          !.inode_table[inumber] =
                              [i_node_type |-> n_type, i_size |-> 0,
                               i_data_blocks |-> [k \in 0..MAX_FILE_BLOCKS-1 |-> -1],
                               i_curr_block |-> -1, i_indir_block |-> -1,
                               i_curr_indir |-> -1]],
          ret |-> inumber]

\* inode_create(T_DIRECTORY), after data_block_alloc returned b
inode_create_dir_init(s, inumber, b) ==
    [s EXCEPT !.i_lock[inumber] = NoLock,
              !.inode_table[inumber] =
                  [i_node_type |-> T_DIRECTORY, i_size |-> BLOCK_SIZE,
                   i_data_blocks |-> [k \in 0..MAX_FILE_BLOCKS-1 |-> IF k = 0 THEN b ELSE -1],
                   i_curr_block |-> 0, i_indir_block |-> -1, i_curr_indir |-> -1],
              !.dir_view[b] = [e \in 0..MAX_DIR_ENTRIES-1 |->
                                  [d_name |-> s.dir_view[b][e].d_name, d_inumber |-> -1]]]

\* inode_delete, the check made before the lock is taken
inode_delete_check(s, inumber) == valid_inumber(inumber) /\ s.freeinode_ts[inumber] # FREE

\* a faulty variant of the store below: the slot stays taken
inode_delete_slot_kept(s, inumber) == s

inode_delete_slot(s, inumber) == [s EXCEPT !.freeinode_ts[inumber] = FREE]

\* free_inode_blocks, first loop: the direct blocks from index k on
RECURSIVE FreeDirect(_, _, _)
FreeDirect(s, inumber, k) ==
    IF k >= MAX_FILE_BLOCKS THEN [s |-> s, ret |-> 0]
    ELSE LET f == data_block_free(s, s.inode_table[inumber].i_data_blocks[k]) IN
         IF f.ret = -1 THEN [s |-> s, ret |-> -1]
         ELSE FreeDirect(f.s, inumber, k + 1)

\* free_inode_blocks, second loop: block[k] for k < (size_t) i_curr_indir
RECURSIVE FreeIndirEntries(_, _, _, _, _)
FreeIndirEntries(s, b, k, bound, ub) ==
    IF k >= bound THEN [s |-> s, ret |-> 0, ubhit |-> FALSE]
    ELSE IF OutOfMem(b, k)
    THEN LET f == data_block_free(s, ub) IN [s |-> f.s, ret |-> f.ret, ubhit |-> TRUE]
    ELSE LET f == data_block_free(s, IndirGet(s, b, k, ub)) IN
         IF f.ret = -1 THEN [s |-> s, ret |-> -1, ubhit |-> FALSE]
         ELSE FreeIndirEntries(f.s, b, k + 1, bound, ub)

\* free_inode_blocks, the part that frees the indirect block and its entries
FreeIndirect(s, inumber, ub) ==
    LET ino == s.inode_table[inumber] IN
    IF ino.i_indir_block = -1 THEN [s |-> s, ret |-> 0, ubhit |-> FALSE]
    ELSE IF ~valid_block_number(ino.i_indir_block) THEN [s |-> s, ret |-> -1, ubhit |-> FALSE]
    ELSE LET e == FreeIndirEntries(s, ino.i_indir_block, 0, ino.i_curr_indir % SizeMod, ub) IN
         IF e.ret = -1 THEN e
         ELSE [s |-> data_block_free(e.s, ino.i_indir_block).s, ret |-> 0, ubhit |-> e.ubhit]

\* ------------------------------------------------------------------------
\* Directory
\* ------------------------------------------------------------------------
RECURSIVE FirstEmptyEntry(_, _)
FirstEmptyEntry(d, k) ==
    IF k >= MAX_DIR_ENTRIES THEN -1
    ELSE IF d[k].d_inumber = -1 THEN k
    ELSE FirstEmptyEntry(d, k + 1)

add_dir_entry(s, inumber, sub_inumber, sub_name) ==
    IF ~valid_inumber(inumber) \/ ~valid_inumber(sub_inumber) THEN [s |-> s, ret |-> -1]
    ELSE IF s.inode_table[inumber].i_node_type # T_DIRECTORY THEN [s |-> s, ret |-> -1]
    ELSE IF Len(sub_name) = 0 THEN [s |-> s, ret |-> -1]
    ELSE LET b == s.inode_table[inumber].i_data_blocks[0] IN
         IF ~valid_block_number(b) THEN [s |-> s, ret |-> -1]
         ELSE LET k == FirstEmptyEntry(s.dir_view[b], 0) IN
              IF k = -1 THEN [s |-> s, ret |-> -1]
              ELSE [s |-> [s EXCEPT !.dir_view[b][k] =
                              [d_name |-> StrnCpy(sub_name, MAX_FILE_NAME - 1),
                               d_inumber |-> sub_inumber]],
                    ret |-> 0]

RECURSIVE FindEntry(_, _, _)
FindEntry(d, sub_name, k) ==
    IF k >= MAX_DIR_ENTRIES THEN -1
    ELSE IF d[k].d_inumber # -1 /\ StrnEq(d[k].d_name, sub_name, MAX_FILE_NAME)
    THEN d[k].d_inumber
    ELSE FindEntry(d, sub_name, k + 1)

find_in_dir(s, inumber, sub_name) ==
    IF ~valid_inumber(inumber) \/ s.inode_table[inumber].i_node_type # T_DIRECTORY THEN -1
    ELSE LET b == s.inode_table[inumber].i_data_blocks[0] IN
         IF ~valid_block_number(b) THEN -1
         ELSE FindEntry(s.dir_view[b], sub_name, 0)

tfs_lookup(s, name) ==
    IF ~valid_pathname(name) THEN -1
    ELSE find_in_dir(s, ROOT_DIR_INUM, Tail(name))

\* ------------------------------------------------------------------------
\* Open file table
\* ------------------------------------------------------------------------
\* a faulty variant of the function below: on a full table entry 0 is taken over
add_to_open_file_table_reuse(s, inumber, read_offset, write_offset) ==
    LET f == FirstFree(s.free_open_file_entries, MAX_OPEN_FILES)
        i == IF f = -1 THEN 0 ELSE f
    IN [s |-> [s EXCEPT !.free_open_file_entries[i] = TAKEN,
                        !.of_lock[i] = NoLock,
                        !.open_file_table[i] =
                            [of_inumber |-> inumber, of_read_offset |-> read_offset,
                             of_write_offset |-> write_offset]],
        ret |-> i]

add_to_open_file_table(s, inumber, read_offset, write_offset) ==
    LET i == FirstFree(s.free_open_file_entries, MAX_OPEN_FILES) IN
    IF i = -1 THEN [s |-> s, ret |-> -1]
    ELSE [s |-> [s EXCEPT !.free_open_file_entries[i] = TAKEN,
                          !.of_lock[i] = NoLock,
                          !.open_file_table[i] =
                              [of_inumber |-> inumber, of_read_offset |-> read_offset,
                               of_write_offset |-> write_offset]],
          ret |-> i]

\* remove_from_open_file_table, the check made before the lock is taken
\* a faulty variant of the test below: the entry's state is not looked at
remove_check_any(s, fhandle) == valid_file_handle(fhandle)

remove_check(s, fhandle) ==
    valid_file_handle(fhandle) /\ s.free_open_file_entries[fhandle] = TAKEN

remove_entry(s, fhandle) == [s EXCEPT !.free_open_file_entries[fhandle] = FREE]

\* ------------------------------------------------------------------------
\* Locks (pthread_rwlock_t): w is the writer (0: none), r the readers
\* ------------------------------------------------------------------------
ILockRd(s, i, me) == [s EXCEPT !.i_lock[i].r = @ \cup {me}]

ILockWr(s, i, me) == [s EXCEPT !.i_lock[i].w = me]

IUnlock(s, i, me) ==
    [s EXCEPT !.i_lock[i] = IF @.w = me THEN [@ EXCEPT !.w = 0] ELSE [@ EXCEPT !.r = @ \ {me}]]

OfLockRd(s, h, me) == [s EXCEPT !.of_lock[h].r = @ \cup {me}]

OfUnlock(s, h, me) ==
    [s EXCEPT !.of_lock[h] = IF @.w = me THEN [@ EXCEPT !.w = 0] ELSE [@ EXCEPT !.r = @ \ {me}]]

\* ------------------------------------------------------------------------
\* A call in progress: its arguments, its locals and where it stands
\* ------------------------------------------------------------------------
Frame0 ==
    [op |-> "none", pc |-> "done", name |-> <<>>, flags |-> 0, fh |-> 0, buf |-> <<>>,
     len |-> 0, n_type |-> T_FILE, inum |-> 0, ino |-> 0, roff |-> 0, woff |-> 0,
     to_write |-> 0, scraps |-> 0, real_offset |-> 0, k |-> 0, blk |-> -1,
     to_read |-> 0, out |-> <<>>, ret |-> 0, wret |-> 0, depth |-> 0,
     ub |-> -1, ubhit |-> FALSE, caller |-> "none",
     \* facts about the state in which the call was made, and about the call
     \* before it; written when the call is made, read only by the properties
     pre_ino |-> -1, pre_size |-> 0, pre_woff |-> 0, pre_full |-> FALSE,
     prev_op |-> "none", prev_inum |-> 0, prev_full |-> FALSE]

CallOpen(name, flags) == [Frame0 EXCEPT !.op = "open", !.pc = "o_lookup", !.name = name, !.flags = flags]

CallClose(fhandle) == [Frame0 EXCEPT !.op = "close", !.pc = "c_check", !.fh = fhandle]

CallWrite(fhandle, buffer) ==
    [Frame0 EXCEPT !.op = "write", !.pc = "w_entry", !.fh = fhandle, !.buf = buffer]

CallRead(fhandle, len) == [Frame0 EXCEPT !.op = "read", !.pc = "r_entry", !.fh = fhandle, !.len = len]

CallInodeCreate(n_type) == [Frame0 EXCEPT !.op = "inode_create", !.pc = "ic_scan", !.n_type = n_type]

CallInodeDelete(inumber) == [Frame0 EXCEPT !.op = "inode_delete", !.pc = "d_check", !.inum = inumber]

CallDataBlockAlloc == [Frame0 EXCEPT !.op = "data_block_alloc", !.pc = "ba_alloc"]

Done(s, t, r) == [s |-> s, t |-> [t EXCEPT !.pc = "done", !.ret = r]]

Goto(s, t, pc) == [s |-> s, t |-> [t EXCEPT !.pc = pc]]

\* ------------------------------------------------------------------------
\* inode_create and inode_delete, step by step
\* ------------------------------------------------------------------------
StepInodeCreate(s, t, me) ==
    CASE t.pc = "ic_scan" ->
           LET c == inode_create_scan(s, t.n_type) IN
           IF c.ret = -1 THEN Done(s, t, -1)
           ELSE IF t.n_type = T_DIRECTORY
           THEN [s |-> c.s, t |-> [t EXCEPT !.pc = "ic_alloc", !.inum = c.ret]]
           ELSE Done(c.s, t, c.ret)
      [] t.pc = "ic_alloc" ->
           LET a == data_block_alloc(s) IN
           IF a.ret = -1
           THEN Done([s EXCEPT !.freeinode_ts[t.inum] = FREE], t, -1)
           ELSE [s |-> a.s, t |-> [t EXCEPT !.pc = "ic_init", !.blk = a.ret]]
      [] t.pc = "ic_init" ->
           Done(inode_create_dir_init(s, t.inum, t.blk), t, t.inum)

\* data_block_alloc called on its own: one section under fs_rwlock
StepDataBlockAlloc(s, t, me) ==
    LET a == data_block_alloc(s) IN Done(a.s, [t EXCEPT !.blk = a.ret], a.ret)

\* what follows free_inode_blocks in its caller, given its result r
AfterFree(s, t, r) ==
    IF t.caller = "trunc"
    THEN IF r = -1 THEN Done(s, t, -1) ELSE Goto(s, t, "o_zero")
    ELSE IF t.op = "open" THEN Done(s, t, -1)
    ELSE Done(s, t, r)

StepFreeInodeBlocks(s, t, me) ==
    CASE t.pc = "fb_direct" ->
           IF ~valid_inumber(t.inum) THEN AfterFree(s, t, -1)
           ELSE LET f == FreeDirect(s, t.inum, 0) IN
                IF f.ret = -1 THEN AfterFree(f.s, t, -1)
                ELSE Goto(f.s, t, "fb_indir")
      [] t.pc = "fb_indir" ->
           LET f == FreeIndirect(s, t.inum, t.ub) IN
           AfterFree(f.s, [t EXCEPT !.ubhit = @ \/ f.ubhit], f.ret)

StepInodeDelete(s, t, me) ==
    CASE t.pc = "d_check" ->
           IF ~inode_delete_check(s, t.inum)
           THEN Done(s, t, -1)
           ELSE Goto(s, t, "d_slot")
      [] t.pc = "d_slot" ->
           LET s2 == inode_delete_slot(s, t.inum) IN
           IF s2.inode_table[t.inum].i_size > 0
           THEN Goto(s2, [t EXCEPT !.caller = "delete"], "fb_direct")
           ELSE (IF t.op = "open" THEN Done(s2, t, -1) ELSE Done(s2, t, 0))

\* ------------------------------------------------------------------------
\* tfs_open, step by step
\* ------------------------------------------------------------------------
StepOpen(s, t, me) ==
    CASE t.pc = "o_lookup" ->
           IF ~valid_pathname(t.name) THEN Done(s, t, -1)
           ELSE LET inum == tfs_lookup(s, t.name) IN
                IF inum >= 0 THEN Goto(s, [t EXCEPT !.inum = inum], "o_get")
                ELSE IF HasFlag(t.flags, TFS_O_CREAT) THEN Goto(s, t, "o_create")
                ELSE Done(s, t, -1)
      [] t.pc = "o_get" ->
           IF ~valid_inumber(t.inum) THEN Done(s, t, -1)
           ELSE IF HasFlag(t.flags, TFS_O_TRUNC) THEN Goto(s, t, "o_trunc_chk")
           ELSE Goto(s, t, "o_append")
      [] t.pc = "o_trunc_chk" ->
           IF s.inode_table[t.inum].i_size > 0
           THEN Goto(s, [t EXCEPT !.caller = "trunc"], "fb_direct")
           ELSE Goto(s, t, "o_append")
      [] t.pc = "o_zero" ->
           Goto([s EXCEPT !.inode_table[t.inum].i_size = 0], t, "o_append")
      [] t.pc = "o_append" ->
           IF HasFlag(t.flags, TFS_O_APPEND)
           THEN Goto(s, [t EXCEPT !.roff = s.inode_table[t.inum].i_size,
                                  !.woff = s.inode_table[t.inum].i_size], "o_add")
           ELSE Goto(s, [t EXCEPT !.roff = 0, !.woff = 0], "o_add")
      [] t.pc = "o_create" ->
           LET c == inode_create_scan(s, T_FILE) IN
           IF c.ret = -1 THEN Done(s, t, -1)
           ELSE Goto(c.s, [t EXCEPT !.inum = c.ret], "o_add_dir")
      [] t.pc = "o_add_dir" ->
           LET a == add_dir_entry(s, ROOT_DIR_INUM, t.inum, Tail(t.name)) IN
           IF a.ret = -1 THEN Goto(s, t, "d_check")
           ELSE Goto(a.s, [t EXCEPT !.roff = 0, !.woff = 0], "o_add")
      [] t.pc = "o_add" ->
           LET a == add_to_open_file_table(s, t.inum, t.roff, t.woff) IN
           Done(a.s, t, a.ret)

\* ------------------------------------------------------------------------
\* tfs_close (remove_from_open_file_table), step by step
\* ------------------------------------------------------------------------
StepClose(s, t, me) ==
    CASE t.pc = "c_check" ->
           IF ~remove_check(s, t.fh) THEN Done(s, t, -1) ELSE Goto(s, t, "c_remove")
      [] t.pc = "c_remove" ->
           \* the entry's lock is destroyed; when another call has removed the
           \* entry since the check, the lock is destroyed a second time, and
           \* when a thread holds the lock, a held lock is destroyed: both are
           \* undefined, the call goes on, or pthread_rwlock_destroy fails and
           \* the call returns -1 with fs_rwlock locked
           LET again == \/ s.free_open_file_entries[t.fh] = FREE
                        \/ s.of_lock[t.fh] # NoLock
               t2 == [t EXCEPT !.ubhit = @ \/ again]
           IN IF again /\ t.ub # -1
              THEN Done([remove_entry(s, t.fh) EXCEPT !.fs_rwlock = me], t2, -1)
              ELSE Done(remove_entry(s, t.fh), t2, 0)

\* ------------------------------------------------------------------------
\* tfs_write, step by step
\* ------------------------------------------------------------------------
\* the value the outermost call returns when an inner (recursive) call ends:
\* the result of the recursive call is not used
WDone(s, t, r) == IF t.depth = 0 THEN Done(s, t, r) ELSE Done(s, t, t.wret)

\* a faulty variant of the test below: the body runs for no bytes too
HasBytes_always(to_write) == TRUE

\* "if (to_write > 0)"
HasBytes(to_write) == to_write > 0

\* "write_scraps > 0 || to_write + real_offset == BLOCK_SIZE"
AdvanceCursor(t) == t.scraps > 0 \/ t.to_write + t.real_offset = BLOCK_SIZE

\* data_block_get: the block's index, or -1 for NULL
data_block_get(block_number) == IF valid_block_number(block_number) THEN block_number ELSE -1

\* the write lock is held: the block is taken from the direct list, or the
\* call moves on to the indirect block
WResolve(s, t, me) ==
    LET ino == s.inode_table[t.inum] IN
    IF ino.i_curr_block = MAX_FILE_BLOCKS
    THEN IF ino.i_indir_block = -1 THEN Goto(s, t, "w_indir") ELSE Goto(s, t, "w_slot")
    ELSE LET inrange == ino.i_curr_block >= 0 /\ ino.i_curr_block < MAX_FILE_BLOCKS
             b == IF inrange THEN ino.i_data_blocks[ino.i_curr_block] ELSE t.ub
             s2 == IF AdvanceCursor(t)
                   THEN [s EXCEPT !.inode_table[t.inum].i_curr_block = @ + 1] ELSE s
         IN [s |-> IUnlock(s2, t.inum, me),
             t |-> [t EXCEPT !.pc = "w_copy", !.blk = data_block_get(b),
                             !.ubhit = @ \/ ~inrange]]

\* memcpy(block + real_offset, buffer, to_write)
CopyIn(s, blk, real_offset, buffer, n) ==
    [s EXCEPT !.fs_data = [a \in 0..MemSize-1 |->
        IF a >= blk * BLOCK_SIZE + real_offset /\ a < blk * BLOCK_SIZE + real_offset + n
        THEN buffer[a - (blk * BLOCK_SIZE + real_offset) + 1]
        ELSE s.fs_data[a]]]

StepWrite(s, t, me) ==
    CASE t.pc = "w_entry" ->
           IF ~valid_file_handle(t.fh) THEN WDone(s, t, -1)
           ELSE Goto(s, [t EXCEPT !.inum = s.open_file_table[t.fh].of_inumber], "w_inode")
      [] t.pc = "w_inode" ->
           IF ~valid_inumber(t.inum) THEN WDone(s, t, -1) ELSE Goto(s, t, "w_off")
      [] t.pc = "w_off" ->
           LET off == s.open_file_table[t.fh].of_write_offset
               number_of_blocks == off \div BLOCK_SIZE
           IN Goto(s, [t EXCEPT !.real_offset = off - number_of_blocks * BLOCK_SIZE], "w_split")
      [] t.pc = "w_split" ->
           LET n == Len(t.buf)
               split == n + t.real_offset > BLOCK_SIZE
               tw == IF split THEN BLOCK_SIZE - t.real_offset ELSE n
               sc == IF split /\ s.inode_table[t.inum].i_curr_indir < INDIR_BLOCK_SIZE - 1
                     THEN n - tw ELSE 0
               t2 == [t EXCEPT !.to_write = tw, !.scraps = sc,
                               !.wret = IF t.depth = 0 THEN tw + sc ELSE @]
           IN IF HasBytes(tw) THEN Goto(s, t2, "w_lock") ELSE WDone(s, t2, tw + sc)
      [] t.pc = "w_lock" ->
           LET s2 == ILockWr(s, t.inum, me) IN
           IF s2.inode_table[t.inum].i_size = 0
           THEN Goto(s2, [t EXCEPT !.k = 0], "w_alloc")
           ELSE WResolve(s2, t, me)
      [] t.pc = "w_alloc" ->
           LET a == data_block_alloc(s)
               s2 == [a.s EXCEPT !.inode_table[t.inum].i_data_blocks[t.k] = a.ret]
           IN IF a.ret = -1 THEN WDone(IUnlock(s2, t.inum, me), t, -1)
              ELSE IF t.k + 1 < MAX_FILE_BLOCKS THEN Goto(s2, [t EXCEPT !.k = @ + 1], "w_alloc")
              ELSE WResolve([s2 EXCEPT !.inode_table[t.inum].i_curr_block = 0], t, me)
      [] t.pc = "w_indir" ->
           LET a == data_block_alloc(s)
               s2 == [a.s EXCEPT !.inode_table[t.inum].i_indir_block = a.ret]
           IN IF a.ret = -1 THEN WDone(IUnlock(s2, t.inum, me), t, -1)
              ELSE Goto([s2 EXCEPT !.inode_table[t.inum].i_curr_indir = 0,
                                   !.fs_data = [x \in 0..MemSize-1 |->
                                       IF x >= a.ret * BLOCK_SIZE
                                          /\ x < a.ret * BLOCK_SIZE + INDIR_BLOCK_SIZE
                                       THEN -1 ELSE a.s.fs_data[x]]],
                        t, "w_slot")
      [] t.pc = "w_slot" ->
           LET ino == s.inode_table[t.inum]
               temp == data_block_get(ino.i_indir_block)
           IN IF temp = -1 THEN WDone(IUnlock(s, t.inum, me), t, -1)
              ELSE LET oob == OutOfMem(temp, ino.i_curr_indir)
                       a == IF IndirGet(s, temp, ino.i_curr_indir, t.ub) = -1
                            THEN data_block_alloc(s) ELSE [s |-> s, ret |-> -2]
                       s2 == IF a.ret = -2 THEN s
                             ELSE IndirSet(a.s, temp, ino.i_curr_indir, a.ret)
                       e == IF a.ret = -2 THEN IndirGet(s, temp, ino.i_curr_indir, t.ub)
                            ELSE a.ret
                       t2 == [t EXCEPT !.ubhit = @ \/ oob]
                   IN IF e = -1 THEN WDone(IUnlock(s2, t.inum, me), t2, -1)
                      ELSE LET s3 == IF AdvanceCursor(t)
                                     THEN [s2 EXCEPT !.inode_table[t.inum].i_curr_indir = @ + 1]
                                     ELSE s2
                           IN [s |-> IUnlock(s3, t.inum, me),
                               t |-> [t2 EXCEPT !.pc = "w_copy", !.blk = data_block_get(e)]]
      [] t.pc = "w_copy" ->
           IF t.blk = -1 THEN WDone(s, t, -1)
           ELSE Goto(CopyIn(s, t.blk, t.real_offset, t.buf, t.to_write), t, "w_size")
      [] t.pc = "w_size" ->
           Goto([s EXCEPT !.inode_table[t.inum].i_size = (@ + t.to_write) % SizeMod], t, "w_woff")
      [] t.pc = "w_woff" ->
           LET s2 == [s EXCEPT !.open_file_table[t.fh].of_write_offset =
                                   (@ + t.to_write) % SizeMod]
           IN IF t.scraps > 0
              THEN Goto(s2, [t EXCEPT !.buf = SubSeq(t.buf, t.to_write + 1, Len(t.buf)),
                                      !.depth = @ + 1, !.scraps = 0], "w_entry")
              ELSE WDone(s2, t, t.to_write + t.scraps)

\* ------------------------------------------------------------------------
\* tfs_read, step by step
\* ------------------------------------------------------------------------
\* memcpy(buffer, block + real_offset, to_read): the cells that follow
\* block + real_offset in fs_data, whatever block they belong to
CopyOut(s, blk, real_offset, n, ub) ==
    [j \in 1..n |-> Mem(s, blk * BLOCK_SIZE + real_offset + j - 1, ub)]

\* a faulty variant of the store below: the entry has one offset for reading
\* and writing
AdvanceReadOffset_shared(s, fhandle, to_read) ==
    [s EXCEPT !.open_file_table[fhandle].of_read_offset = (@ + to_read) % SizeMod,
              !.open_file_table[fhandle].of_write_offset = (@ + to_read) % SizeMod]

\* "file->of_read_offset += to_read"
AdvanceReadOffset(s, fhandle, to_read) ==
    [s EXCEPT !.open_file_table[fhandle].of_read_offset = (@ + to_read) % SizeMod]

StepRead(s, t, me) ==
    CASE t.pc = "r_entry" ->
           IF ~valid_file_handle(t.fh) THEN Done(s, t, -1)
           ELSE Goto(s, [t EXCEPT !.inum = s.open_file_table[t.fh].of_inumber], "r_inode")
      [] t.pc = "r_inode" ->
           IF ~valid_inumber(t.inum) THEN Done(s, t, -1)
           ELSE LET ino == s.open_file_table[t.fh].of_inumber IN
                IF ~valid_inumber(ino) THEN Done(s, t, -1)
                ELSE Goto(ILockRd(s, t.inum, me), [t EXCEPT !.ino = ino], "r_oflock")
      [] t.pc = "r_oflock" ->
           \* of_rdlock(fhandle), taken with the inode's lock held
           Goto(OfLockRd(s, t.fh, me), t, "r_avail")
      [] t.pc = "r_avail" ->
           LET avail == (s.inode_table[t.ino].i_size
                           - s.open_file_table[t.fh].of_read_offset) % SizeMod
               tr == IF avail > t.len THEN t.len ELSE avail
               s2 == IUnlock(OfUnlock(s, t.fh, me), t.inum, me)
           IN IF tr > 0 THEN Goto(s2, [t EXCEPT !.to_read = tr], "r_off")
              ELSE Done(s2, [t EXCEPT !.to_read = tr], tr)
      [] t.pc = "r_off" ->
           LET off == s.open_file_table[t.fh].of_read_offset
               offset_block == off \div BLOCK_SIZE
           IN Goto(s, [t EXCEPT !.k = offset_block,
                                !.real_offset = off - offset_block * BLOCK_SIZE], "r_resolve")
      [] t.pc = "r_resolve" ->
           LET ino == s.inode_table[t.ino] IN
           IF t.k < MAX_FILE_BLOCKS
           THEN LET b == data_block_get(ino.i_data_blocks[t.k]) IN
                IF b = -1 THEN Done(s, t, -1) ELSE Goto(s, [t EXCEPT !.blk = b], "r_copy")
           ELSE LET temp == data_block_get(ino.i_indir_block) IN
                IF temp = -1 THEN Done(s, t, -1)
                ELSE LET b == data_block_get(IndirGet(s, temp, t.k - MAX_FILE_BLOCKS, t.ub))
                         t2 == [t EXCEPT !.ubhit = @ \/ OutOfMem(temp, t.k - MAX_FILE_BLOCKS)]
                     IN IF b = -1 THEN Done(s, t2, -1)
                        ELSE Goto(s, [t2 EXCEPT !.blk = b], "r_copy")
      [] t.pc = "r_copy" ->
           Goto(s, [t EXCEPT !.out = CopyOut(s, t.blk, t.real_offset, t.to_read, t.ub),
                             !.ubhit = @ \/ (t.blk * BLOCK_SIZE + t.real_offset + t.to_read
                                               > MemSize)],
                "r_roff")
      [] t.pc = "r_roff" ->
           Done(AdvanceReadOffset(s, t.fh, t.to_read), t, t.to_read)

\* ------------------------------------------------------------------------
\* One step of a call, and a call run to its return
\* ------------------------------------------------------------------------
OpenPcs == {"o_lookup", "o_get", "o_trunc_chk", "o_zero", "o_append", "o_create",
            "o_add_dir", "o_add"}

WritePcs == {"w_entry", "w_inode", "w_off", "w_split", "w_lock", "w_alloc", "w_indir",
             "w_slot", "w_copy", "w_size", "w_woff"}

ReadPcs == {"r_entry", "r_inode", "r_oflock", "r_avail", "r_off", "r_resolve", "r_copy",
            "r_roff"}

Step(s, t, me) ==
    CASE t.pc \in OpenPcs -> StepOpen(s, t, me)
      [] t.pc \in WritePcs -> StepWrite(s, t, me)
      [] t.pc \in ReadPcs -> StepRead(s, t, me)
      [] t.pc \in {"c_check", "c_remove"} -> StepClose(s, t, me)
      [] t.pc \in {"ic_scan", "ic_alloc", "ic_init"} -> StepInodeCreate(s, t, me)
      [] t.pc = "ba_alloc" -> StepDataBlockAlloc(s, t, me)
      [] t.pc \in {"d_check", "d_slot"} -> StepInodeDelete(s, t, me)
      [] t.pc \in {"fb_direct", "fb_indir"} -> StepFreeInodeBlocks(s, t, me)

\* the step at t.pc takes fs_rwlock
NeedsFsLock(s, t) ==
    \/ t.pc \in {"o_lookup", "o_create", "o_add_dir", "o_add", "c_remove", "d_slot",
                 "fb_direct", "ic_scan", "ic_alloc", "ic_init", "ba_alloc", "w_alloc", "w_indir",
                 "w_slot"}
    \/ t.pc = "fb_indir" /\ s.inode_table[t.inum].i_indir_block # -1

\* the step at t.pc of thread me is not blocked on a lock
CanStep(s, t, me) ==
    /\ NeedsFsLock(s, t) => s.fs_rwlock = 0
    /\ t.pc \in {"o_get", "o_trunc_chk"} => CanRd(s.i_lock[t.inum], me)
    /\ (t.pc = "o_append" /\ HasFlag(t.flags, TFS_O_APPEND)) => CanRd(s.i_lock[t.inum], me)
    /\ t.pc \in {"o_zero", "w_size"} => CanWr(s.i_lock[t.inum], me)
    /\ (t.pc \in {"w_entry", "r_entry"} /\ valid_file_handle(t.fh)) => CanRd(s.of_lock[t.fh], me)
    /\ (t.pc \in {"w_inode", "r_inode"} /\ valid_inumber(t.inum)) => CanRd(s.i_lock[t.inum], me)
    /\ t.pc \in {"w_off", "r_oflock", "r_off"} => CanRd(s.of_lock[t.fh], me)
    /\ (t.pc = "w_split" /\ Len(t.buf) + t.real_offset > BLOCK_SIZE)
          => CanRd(s.i_lock[t.inum], me)
    /\ t.pc = "w_lock" => CanWr(s.i_lock[t.inum], me)
    /\ t.pc = "r_resolve" => CanRd(s.i_lock[t.inum], me)
    /\ t.pc \in {"w_woff", "r_roff"} => CanWr(s.of_lock[t.fh], me)

RECURSIVE Run(_, _, _)
Run(s, t, me) ==
    IF t.pc = "done" \/ ~CanStep(s, t, me) THEN [s |-> s, t |-> t]
    ELSE LET n == Step(s, t, me) IN Run(n.s, n.t, me)

\* a faulty variant of the function below: the bitmap of the blocks is kept
state_init_blocks_kept(s) ==
    [s EXCEPT !.freeinode_ts = [i \in 0..INODE_TABLE_SIZE-1 |-> FREE],
              !.free_open_file_entries = [h \in 0..MAX_OPEN_FILES-1 |-> FREE],
              !.fs_rwlock = 0]

\* state_init: every inode, block and open file entry is marked FREE and the
\* lock of the tables is initialised
state_init(s) ==
    [s EXCEPT !.freeinode_ts = [i \in 0..INODE_TABLE_SIZE-1 |-> FREE],
              !.free_blocks = [k \in 0..DATA_BLOCKS-1 |-> FREE],
              !.free_open_file_entries = [h \in 0..MAX_OPEN_FILES-1 |-> FREE],
              !.fs_rwlock = 0]

\* tfs_init: state_init, then inode_create(T_DIRECTORY) must return the root
tfs_init(s0) ==
    LET r == Run(state_init(s0), CallInodeCreate(T_DIRECTORY), 1) IN
    [s |-> r.s, ret |-> IF r.t.ret # ROOT_DIR_INUM THEN -1 ELSE 0, root |-> r.t.ret]

\* ------------------------------------------------------------------------
\* Inputs
\* ------------------------------------------------------------------------
Paths == {<<"/", "a">>, <<"/", "b">>}

FlagSets == 0..7

\* a byte whose value is a block index, and one whose value is none
Bytes == {1, DATA_BLOCKS + 1}

OtherByte(b) == IF b = 1 THEN DATA_BLOCKS + 1 ELSE 1

\* the buffer of n bytes that starts with b and alternates
Pattern(n, b) == [j \in 1..n |-> IF j % 2 = 1 THEN b ELSE OtherByte(b)]

MaxLen == 6

MaxOps == 4

Buffers == {Pattern(n, 1) : n \in 0..MaxLen} \cup {Pattern(1, OtherByte(1))}

\* what an out-of-bounds read may yield: the "empty" mark, a block index, no index
UBVals == {-1, 0, DATA_BLOCKS}

Threads == {1, 2}

\* ------------------------------------------------------------------------
\* The server (tfs_server.c): its session table, its mutex, the request it is
\* handling, the request pipe, and the clients with their reply pipes. A
\* client's reply pipe is known to the server by a descriptor, here the
\* client's number; descriptor 0 is no client's pipe.
\* ------------------------------------------------------------------------
MAX_SERVER_SESSIONS == 1

TFS_OP_CODE_MOUNT == 1

TFS_OP_CODE_UNMOUNT == 2

TFS_OP_CODE_OPEN == 3

TFS_OP_CODE_CLOSE == 4

TFS_OP_CODE_WRITE == 5

TFS_OP_CODE_READ == 6

TFS_OP_CODE_SHUTDOWN_AFTER_ALL_CLOSED == 7

Clients == 1..(MAX_SERVER_SESSIONS + 1)

MaxRequests == 3

\* what a read through a pointer that was made from a character may yield,
\* when it yields anything
GarbageInts == -1..MAX_SERVER_SESSIONS

valid_session_id(session_id) == session_id >= 0 /\ session_id < MAX_SERVER_SESSIONS

NetInit ==
    [pc |-> "recv",
     req |-> [op_code |-> 0, client |-> 0, session_id |-> -1, call |-> "none"],
     free_session_table |-> [i \in 0..MAX_SERVER_SESSIONS-1 |-> FREE],
     client_fd |-> [i \in 0..MAX_SERVER_SESSIONS-1 |-> 0],
     active_session_counter |-> 0,
     mutex |-> FALSE,
     pipe |-> <<>>,
     inbox |-> [c \in Clients |-> <<>>],
     cst |-> [c \in Clients |-> "out"],
     was |-> [c \in Clients |-> "out"],
     curr_session_id |-> [c \in Clients |-> -1],
     sent |-> 0,
     last |-> [client |-> 0, value |-> -1],
     \* the values written in reply to the request being handled
     replies |-> <<>>,
     \* the call each client made last, whether it has returned, the value it
     \* read from its pipe and the value it returned
     calling |-> [c \in Clients |-> "none"],
     answered |-> [c \in Clients |-> FALSE],
     got |-> [c \in Clients |-> 0],
     ret |-> [c \in Clients |-> 0],
     \* the call returned because its read of the pipe failed
     lost |-> [c \in Clients |-> FALSE]]

session_id_alloc(n) ==
    LET i == FirstFree(n.free_session_table, MAX_SERVER_SESSIONS) IN
    IF i = -1 THEN [n |-> n, ret |-> -1]
    ELSE [n |-> [n EXCEPT !.free_session_table[i] = TAKEN], ret |-> i]

session_id_remove(n, session_id) == [n EXCEPT !.free_session_table[session_id] = FREE]

\* the int v arrives in the pipe behind descriptor fd
Deliver(n, fd, v) ==
    LET n2 == [n EXCEPT !.replies = Append(@, [fd |-> fd, value |-> v])] IN
    IF fd \in Clients THEN [n2 EXCEPT !.inbox[fd] = Append(@, v)] ELSE n2

At(n, pc) == [n EXCEPT !.pc = pc]

\* pthread_mutex_lock by the thread that holds the mutex: the thread blocks
\* for ever, or the call returns an error
Relock(n, on_error) == {At(n, "blocked"), on_error}

\* a write to a descriptor that is no client's pipe may fail
SendMayFail(dest_fd) == dest_fd \notin Clients

\* write_until_success(client_fd, session_id, SESSION_ID_SIZE) and the like:
\* the int is passed as the address of the bytes to send. No session id, file
\* handle, byte count or -1 is an address the process has mapped: the write
\* fails, and the handler goes on to send_message(client_fd, -1).
\* tfs_server_mount from the reply on: -1 is sent and the handler returns,
\* before the session is counted and before the descriptor is stored
MountReply(n, c, session_id) ==
    {[Deliver(n, c, -1) EXCEPT !.pc = "unmount", !.last = [client |-> c, value |-> -1]]}

\* tfs_server_mount: the session is allocated; with no free slot the handler
\* waits on request_cond, and no other thread is there to signal it
tfs_server_mount(n) ==
    IF n.mutex THEN Relock(n, At(n, "exited"))
    ELSE LET a == session_id_alloc(n) IN
         IF a.ret = -1 THEN {At(a.n, "m_wait")}
         ELSE MountReply(a.n, n.req.client, a.ret)

\* tfs_server_unmount with the value session_id read through (int*) args[0]
UnmountWith(n, session_id) ==
    IF n.mutex THEN Relock(n, At(n, "exited"))
    ELSE IF ~valid_session_id(session_id) THEN {At(n, "exited")}
    ELSE LET client_fd == n.client_fd[session_id]
             n2 == session_id_remove(n, session_id)
             n3 == [n2 EXCEPT !.active_session_counter = @ - 1, !.pc = "open"]
         IN {Deliver(n3, client_fd, 0)}
            \cup (IF SendMayFail(client_fd) THEN {At(n2, "exited")} ELSE {})

tfs_server_unmount(n) ==
    {At(n, "crashed")} \cup UNION {UnmountWith(n, session_id) : session_id \in GarbageInts}

\* tfs_server_open, _close, _write, _read, _shutdown with the value session_id
\* read through (int*) args[0]; next is the handler the switch falls into
FileOpWith(n, session_id, next) ==
    IF n.mutex THEN Relock(n, At(n, next))
    ELSE IF ~valid_session_id(session_id) THEN {[n EXCEPT !.mutex = TRUE, !.pc = next]}
    ELSE LET client_fd == n.client_fd[session_id] IN
         {Deliver(At(n, next), client_fd, -1)}
         \cup (IF SendMayFail(client_fd) THEN {At(n, "exited")} ELSE {})

FileOp(n, next) ==
    {At(n, "crashed")} \cup UNION {FileOpWith(n, session_id, next) : session_id \in GarbageInts}

tfs_server_open(n) == FileOp(n, "close")

tfs_server_close(n) == FileOp(n, "write")

tfs_server_write(n) == FileOp(n, "read")

tfs_server_read(n) == FileOp(n, "shutdown")

tfs_server_shutdown(n) == FileOp(n, "recv")

\* main: the switch on the op code of the request just read
Dispatch(op_code) ==
    CASE op_code = 1 -> "mount" [] op_code = 2 -> "unmount" [] op_code = 3 -> "open"
      [] op_code = 4 -> "close" [] op_code = 5 -> "write" [] op_code = 6 -> "read"
      [] op_code = 7 -> "shutdown" [] OTHER -> "recv"

\* ------------------------------------------------------------------------
\* Variables: the file system, each thread's call, the number of calls made,
\* each thread's position in its script and the results of its calls, and the
\* server with its request pipe and its clients
\* ------------------------------------------------------------------------
VARIABLES fs, th, nops, ip, res, net

vars == <<fs, th, nops, ip, res, net>>

InitFs == tfs_init(ZeroState).s

\* the inode a handle names and its size, when the handle is in range
HandleInum(s, h) == IF valid_file_handle(h) THEN s.open_file_table[h].of_inumber ELSE -1

InodeSize(s, inum) == IF valid_inumber(inum) THEN s.inode_table[inum].i_size ELSE 0

TableFull(s) == \A i \in 0..INODE_TABLE_SIZE-1 : s.freeinode_ts[i] = TAKEN

\* the call t0, with the facts about the state s it is made in and about the
\* call prev made before it
WithPre(s, t0, prev) ==
    LET ino == IF t0.op = "open" THEN tfs_lookup(s, t0.name)
               ELSE IF t0.op \in {"close", "write", "read"} THEN HandleInum(s, t0.fh)
               ELSE -1
    IN [t0 EXCEPT !.pre_ino = ino,
                  !.pre_size = InodeSize(s, ino),
                  !.pre_woff = IF t0.op = "write" /\ valid_file_handle(t0.fh)
                               THEN s.open_file_table[t0.fh].of_write_offset ELSE 0,
                  !.pre_full = t0.op \in {"inode_create", "inode_delete"} /\ TableFull(s),
                  !.prev_op = IF t0.op = "inode_create" THEN prev.op ELSE "none",
                  !.prev_inum = IF t0.op = "inode_create" THEN prev.inum ELSE 0,
                  !.prev_full = t0.op = "inode_create" /\ prev.pre_full]

\* what is kept of a call that returned: its arguments, its results, its facts
Returned(t, t0) ==
    [t0 EXCEPT !.pc = "done", !.ret = t.ret, !.out = t.out, !.ubhit = t.ubhit]

\* ------------------------------------------------------------------------
\* Sequential use of the library: thread 1 makes one call at a time
\* ------------------------------------------------------------------------
Init ==
    /\ fs = InitFs
    /\ th = [i \in Threads |-> Frame0]
    /\ nops = 0
    /\ ip = [i \in Threads |-> 1]
    /\ res = [i \in Threads |-> <<>>]
    /\ net = NetInit

\* the call c0 is made and runs to its return; the values of its undefined
\* reads, when it makes any, are chosen here
Call(c0) ==
    LET t0 == WithPre(fs, c0, th[1])
        r0 == Run(fs, t0, 1)
    IN \E ub \in (IF r0.t.ubhit THEN UBVals ELSE {-1}) :
          LET r == IF ub = -1 THEN r0 ELSE Run(fs, [t0 EXCEPT !.ub = ub], 1) IN
          /\ fs' = r.s
          /\ th' = [th EXCEPT ![1] = Returned(r.t, t0)]
          /\ nops' = nops + 1
          /\ UNCHANGED <<ip, res, net>>

Open == nops < MaxOps /\ \E name \in Paths, flags \in FlagSets : Call(CallOpen(name, flags))

Close == nops < MaxOps /\ \E h \in -1..MAX_OPEN_FILES : Call(CallClose(h))

Write == nops < MaxOps /\ \E h \in 0..MAX_OPEN_FILES-1, b \in Buffers : Call(CallWrite(h, b))

Read == nops < MaxOps /\ \E h \in 0..MAX_OPEN_FILES-1, n \in 0..MaxLen : Call(CallRead(h, n))

Next == Open \/ Close \/ Write \/ Read

Spec == Init /\ [][Next]_vars

\* the step is a call of op made by thread 1
Called(op) == nops' = nops + 1 /\ th'[1].op = op

\* ------------------------------------------------------------------------
\* What the properties speak of
\* ------------------------------------------------------------------------
Capacity == (MAX_FILE_BLOCKS + INDIR_BLOCK_SIZE) * BLOCK_SIZE

\* the block that holds the file's k-th block of content, -1 when there is none
FileBlock(s, inum, k) ==
    LET ino == s.inode_table[inum] IN
    IF k < MAX_FILE_BLOCKS THEN data_block_get(ino.i_data_blocks[k])
    ELSE IF data_block_get(ino.i_indir_block) = -1 THEN -1
    ELSE data_block_get(IndirGet(s, ino.i_indir_block, k - MAX_FILE_BLOCKS, -1))

\* the file's content, offset by offset (-1 where no block holds the offset)
FileBytes(s, inum) ==
    LET n == s.inode_table[inum].i_size IN
    IF n > Capacity THEN <<-1>>
    ELSE [j \in 1..n |->
            LET b == FileBlock(s, inum, (j - 1) \div BLOCK_SIZE) IN
            IF b = -1 THEN -1 ELSE s.fs_data[b * BLOCK_SIZE + ((j - 1) % BLOCK_SIZE)]]

IsOpen(s, h) == valid_file_handle(h) /\ s.free_open_file_entries[h] = TAKEN

\* C1: a buffer written through a handle at offset 0 into an empty file is
\* read back, byte for byte, by a read of at least its length through a
\* handle of the same file whose read offset is 0, also when the buffer spans
\* several blocks.
C1_WriteReadRoundTrip ==
    [][ ( /\ Called("read")
          /\ th[1].op = "write" /\ IsOpen(fs, th[1].fh)
          /\ valid_inumber(th[1].pre_ino)
          /\ th[1].pre_size = 0 /\ th[1].pre_woff = 0
          /\ th[1].ret = Len(th[1].buf)
          /\ IsOpen(fs, th'[1].fh)
          /\ th'[1].pre_ino = th[1].pre_ino
          /\ fs.open_file_table[th'[1].fh].of_read_offset = 0
          /\ th'[1].len >= Len(th[1].buf) )
        => /\ th'[1].ret = Len(th[1].buf)
           /\ th'[1].out = th[1].buf ]_vars

\* the call thread 1 made last is an open that returned a handle of a file that
\* was there before it, with the flag bit set
OpenedWith(bit) ==
    /\ th[1].op = "open" /\ HasFlag(th[1].flags, bit)
    /\ th[1].ret >= 0 /\ valid_inumber(th[1].pre_ino)

\* C4: after an open with TFS_O_TRUNC of a file with size > 0 the size is 0
\* and both cursors of the handle are 0; a write of k bytes that follows
\* through the handle leaves a file of size k whose content is those k bytes.
C4_TruncThenWrite ==
    [][ ( OpenedWith(TFS_O_TRUNC) /\ th[1].pre_size > 0 /\ nops' = nops + 1 )
        => /\ fs.inode_table[th[1].pre_ino].i_size = 0
           /\ fs.open_file_table[th[1].ret].of_read_offset = 0
           /\ fs.open_file_table[th[1].ret].of_write_offset = 0
           /\ ( Called("write") /\ th'[1].fh = th[1].ret /\ Len(th'[1].buf) <= Capacity )
              => /\ fs'.inode_table[th[1].pre_ino].i_size = Len(th'[1].buf)
                 /\ FileBytes(fs', th[1].pre_ino) = th'[1].buf ]_vars

\* C5: after an open with TFS_O_APPEND the write cursor of the handle is the
\* file's size; a write of k bytes that follows through the handle (k within
\* the room left) leaves the old content in place with the k bytes after it.
C5_AppendThenWrite ==
    [][ ( OpenedWith(TFS_O_APPEND) /\ nops' = nops + 1 )
        => /\ fs.open_file_table[th[1].ret].of_write_offset
                 = fs.inode_table[th[1].pre_ino].i_size
           /\ ( /\ Called("write") /\ th'[1].fh = th[1].ret
                /\ fs.inode_table[th[1].pre_ino].i_size + Len(th'[1].buf) <= Capacity )
              => FileBytes(fs', th[1].pre_ino)
                    = FileBytes(fs, th[1].pre_ino) \o th'[1].buf ]_vars

\* the file of inode inum occupies all its direct and indirect blocks
AtCapacity(s, inum) ==
    /\ s.inode_table[inum].i_size = Capacity
    /\ s.inode_table[inum].i_curr_block = MAX_FILE_BLOCKS
    /\ s.inode_table[inum].i_curr_indir = INDIR_BLOCK_SIZE

\* C6: a write of at least one byte to a file that occupies all its blocks
\* returns -1 and changes neither the file's size nor the content of any block.
C6_FullFileRejectsWrite ==
    [][ ( /\ Called("write") /\ IsOpen(fs, th'[1].fh)
          /\ valid_inumber(th'[1].pre_ino)
          /\ AtCapacity(fs, th'[1].pre_ino)
          /\ Len(th'[1].buf) >= 1 )
        => /\ th'[1].ret = -1
           /\ fs'.inode_table[th'[1].pre_ino].i_size = Capacity
           /\ fs'.fs_data = fs.fs_data ]_vars

\* C10: called by one thread at a time, tfs_close of a handle that is not
\* open (out of range, never opened, closed before) returns -1 and leaves the
\* open file table as it was; tfs_close of an open handle returns 0 and frees
\* that handle and no other.
C10_CloseOpenOrNot ==
    [][ Called("close")
        => LET h == th'[1].fh IN
           /\ fs'.open_file_table = fs.open_file_table
           /\ IF IsOpen(fs, h)
              THEN /\ th'[1].ret = 0
                   /\ fs'.free_open_file_entries
                        = [fs.free_open_file_entries EXCEPT ![h] = FREE]
              ELSE /\ th'[1].ret = -1
                   /\ fs'.free_open_file_entries = fs.free_open_file_entries ]_vars

\* a close of a handle that had been opened and closed before has returned -1
C10_ClosedTwice ==
    /\ th[1].op = "close" /\ th[1].ret = -1
    /\ valid_file_handle(th[1].fh)
    /\ valid_inumber(th[1].pre_ino) /\ th[1].pre_ino # ROOT_DIR_INUM

\* ------------------------------------------------------------------------
\* The inode table used on its own: inode_create and inode_delete, one call
\* at a time
\* ------------------------------------------------------------------------
MaxTableOps == INODE_TABLE_SIZE + 3

InodeCreate ==
    nops < MaxTableOps /\ \E n_type \in {T_FILE, T_DIRECTORY} : Call(CallInodeCreate(n_type))

InodeDelete ==
    nops < MaxTableOps /\ \E inumber \in -1..INODE_TABLE_SIZE : Call(CallInodeDelete(inumber))

NextTable == InodeCreate \/ InodeDelete

SpecTable == Init /\ [][NextTable]_vars

\* C7: with every slot of the inode table taken, inode_create returns -1 and
\* takes no slot; after an inode_delete of one inode of the full table, the
\* next inode_create returns the number that was freed and takes that slot.
C7_InodeTableCapacity ==
    [][ Called("inode_create")
        => /\ TableFull(fs)
              => /\ th'[1].ret = -1
                 /\ fs'.freeinode_ts = fs.freeinode_ts
           /\ ( th[1].op = "inode_delete" /\ th[1].pre_full /\ valid_inumber(th[1].inum) )
              => /\ th'[1].ret = th[1].inum
                 /\ fs'.freeinode_ts = [fs.freeinode_ts EXCEPT ![th[1].inum] = TAKEN] ]_vars

\* an inode_create made right after an inode_delete on the full table has
\* returned the number that inode_delete freed
C7_SlotReused ==
    /\ th[1].op = "inode_create" /\ th[1].prev_op = "inode_delete" /\ th[1].prev_full
    /\ th[1].ret >= 0 /\ th[1].ret = th[1].prev_inum
    /\ TableFull(fs)

\* ------------------------------------------------------------------------
\* Threads that call the library concurrently: a thread starts the next call
\* of its script, or takes the next step of the call it is in
\* ------------------------------------------------------------------------
\* what stays in a thread's frame between two calls
Rest(t) == [Frame0 EXCEPT !.op = t.op, !.fh = t.fh, !.ret = t.ret]

Begin(tid, c0) ==
    /\ th[tid].pc = "done"
    /\ th' = [th EXCEPT ![tid] = c0]
    /\ ip' = [ip EXCEPT ![tid] = @ + 1]
    /\ UNCHANGED <<fs, nops, res, net>>

\* the outcome n of a step of thread tid is stored; a call that returned
\* leaves its result in the thread's record
Stepped(tid, n) ==
    /\ fs' = n.s
    /\ IF n.t.pc = "done"
       THEN /\ th' = [th EXCEPT ![tid] = Rest(n.t)]
            /\ res' = [res EXCEPT ![tid] =
                          Append(@, [op |-> n.t.op, ret |-> n.t.ret, out |-> n.t.out,
                                     len |-> n.t.len, ubhit |-> n.t.ubhit])]
       ELSE /\ th' = [th EXCEPT ![tid] = n.t]
            /\ UNCHANGED res

ThreadStep(tid) ==
    /\ th[tid].pc # "done"
    /\ CanStep(fs, th[tid], tid)
    /\ Stepped(tid, Step(fs, th[tid], tid))
    /\ UNCHANGED <<nops, ip, net>>

\* the handle the thread got from the open its script starts with
MyHandle(tid) == res[tid][1].ret

\* ------------------------------------------------------------------------
\* Two threads, each creating its own file, writing one block of its own
\* pattern and reading it back
\* ------------------------------------------------------------------------
PathOf(tid) == IF tid = 1 THEN <<"/", "a">> ELSE <<"/", "b">>

PatternOf(tid) == Pattern(BLOCK_SIZE, IF tid = 1 THEN 1 ELSE OtherByte(1))

CreateCall(tid, k) ==
    CASE k = 1 -> CallOpen(PathOf(tid), TFS_O_CREAT)
      [] k = 2 -> CallWrite(MyHandle(tid), PatternOf(tid))
      [] k = 3 -> CallRead(MyHandle(tid), BLOCK_SIZE)

CreateBegin(tid) == ip[tid] <= 3 /\ Begin(tid, CreateCall(tid, ip[tid]))

NextCreate == \E tid \in Threads : CreateBegin(tid) \/ ThreadStep(tid)

SpecCreate == Init /\ [][NextCreate]_vars

\* the blocks an inode refers to: direct, indirect, and through the indirect
BlocksOf(s, inum) ==
    LET ino == s.inode_table[inum] IN
    {b \in 0..DATA_BLOCKS-1 :
        \/ \E k \in 0..MAX_FILE_BLOCKS-1 : ino.i_data_blocks[k] = b
        \/ ino.i_indir_block = b
        \/ /\ valid_block_number(ino.i_indir_block)
           /\ \E k \in 0..INDIR_BLOCK_SIZE-1 : IndirGet(s, ino.i_indir_block, k, -1) = b}

AllDone(n) == \A tid \in Threads : Len(res[tid]) = n

\* C2: two threads create different files and each writes BLOCK_SIZE bytes of
\* its own pattern: at no time do the two inodes refer to a common block, every
\* call succeeds, and each file, read back, holds its own thread's pattern.
C2_ConcurrentCreates ==
    LET ia == tfs_lookup(fs, PathOf(1))
        ib == tfs_lookup(fs, PathOf(2))
    IN /\ (ia >= 0 /\ ib >= 0)
            => /\ ia # ib
               /\ BlocksOf(fs, ia) \cap BlocksOf(fs, ib) = {}
       /\ \A tid \in Threads :
            /\ \A k \in 1..Len(res[tid]) : ~res[tid][k].ubhit
            /\ Len(res[tid]) >= 1 => res[tid][1].ret >= 0
            /\ Len(res[tid]) >= 2 => res[tid][2].ret = BLOCK_SIZE
            /\ Len(res[tid]) >= 3 => /\ res[tid][3].ret = BLOCK_SIZE
                                     /\ res[tid][3].out = PatternOf(tid)
       /\ AllDone(3) => /\ FileBytes(fs, ia) = PatternOf(1)
                        /\ FileBytes(fs, ib) = PatternOf(2)

\* both threads are done and their allocations interleaved: a block of the
\* second file lies between two blocks of the first
C2_Interleaved ==
    /\ AllDone(3)
    /\ LET ia == tfs_lookup(fs, PathOf(1))
           ib == tfs_lookup(fs, PathOf(2))
       IN /\ ia >= 0 /\ ib >= 0
          /\ \E x, z \in BlocksOf(fs, ia), y \in BlocksOf(fs, ib) : x < y /\ y < z
          /\ res[1][3].out = PatternOf(1) /\ res[2][3].out = PatternOf(2)

\* ------------------------------------------------------------------------
\* Threads that open the same file, written beforehand, read it and close it
\* ------------------------------------------------------------------------
\* the file system after one thread created /a, wrote buffer to it and closed
Prewritten(buffer) ==
    LET o == Run(InitFs, CallOpen(PathOf(1), TFS_O_CREAT), 1)
        w == Run(o.s, CallWrite(o.t.ret, buffer), 1)
        c == Run(w.s, CallClose(o.t.ret), 1)
    IN c.s

InitReaders ==
    /\ \E n \in 1..MaxLen : fs = Prewritten(Pattern(n, 1))
    /\ th = [i \in Threads |-> Frame0]
    /\ nops = 0
    /\ ip = [i \in Threads |-> 1]
    /\ res = [i \in Threads |-> <<>>]
    /\ net = NetInit

ReaderOpen(tid) == ip[tid] = 1 /\ Begin(tid, CallOpen(PathOf(1), 0))

ReaderRead(tid) ==
    ip[tid] = 2 /\ \E max_len \in 0..MaxLen : Begin(tid, CallRead(MyHandle(tid), max_len))

ReaderClose(tid) == ip[tid] = 3 /\ Begin(tid, CallClose(MyHandle(tid)))

NextReaders ==
    \E tid \in Threads :
        ReaderOpen(tid) \/ ReaderRead(tid) \/ ReaderClose(tid) \/ ThreadStep(tid)

SpecReaders == InitReaders /\ [][NextReaders]_vars

\* the thread has been given a handle and has not closed it yet
Holding(tid) == Len(res[tid]) \in {1, 2}

\* the size and the content of the file written beforehand
PreSize == fs.inode_table[tfs_lookup(fs, PathOf(1))].i_size

PreContent == Pattern(PreSize, 1)

\* C3: several threads open the same file, written beforehand, read it and
\* close it: every open and close succeeds, the handles held at the same time
\* are pairwise distinct, and every read returns the file's content from
\* offset 0 up to min(max_len, size).
C3_ConcurrentReaders ==
    /\ \A tid \in Threads :
         /\ Len(res[tid]) >= 1 => res[tid][1].ret >= 0
         /\ Len(res[tid]) >= 2 =>
              /\ res[tid][2].ret = Min(res[tid][2].len, PreSize)
              /\ res[tid][2].out = SubSeq(PreContent, 1, Min(res[tid][2].len, PreSize))
         /\ Len(res[tid]) >= 3 => res[tid][3].ret = 0
    /\ \A i, j \in Threads : (i # j /\ Holding(i) /\ Holding(j)) => MyHandle(i) # MyHandle(j)

\* ------------------------------------------------------------------------
\* The server at work: clients send mount and unmount requests and read the
\* replies; the server reads a request and runs the handlers the switch of
\* main runs for it, one after the other
\* ------------------------------------------------------------------------
Server(handler, outcomes) ==
    /\ net.pc = handler
    /\ net' \in outcomes
    /\ UNCHANGED <<fs, th, nops, ip, res>>

ServerRead ==
    /\ net.pc = "recv" /\ net.pipe # <<>>
    /\ net' = [net EXCEPT !.req = Head(net.pipe), !.pipe = Tail(net.pipe),
                          !.replies = <<>>,
                          !.pc = Dispatch(Head(net.pipe).op_code)]
    /\ UNCHANGED <<fs, th, nops, ip, res>>

ServerMount == Server("mount", tfs_server_mount(net))

ServerUnmount == Server("unmount", tfs_server_unmount(net))

ServerOpen == Server("open", tfs_server_open(net))

ServerClose == Server("close", tfs_server_close(net))

ServerWrite == Server("write", tfs_server_write(net))

ServerReadFile == Server("read", tfs_server_read(net))

ServerShutdown == Server("shutdown", tfs_server_shutdown(net))

ServerNext ==
    \/ ServerRead \/ ServerMount \/ ServerUnmount \/ ServerOpen \/ ServerClose
    \/ ServerWrite \/ ServerReadFile \/ ServerShutdown

\* tfs_mount, up to the request written into the server's pipe
ClientMount(c) ==
    /\ net.cst[c] = "out" /\ net.sent < MaxRequests
    /\ net' = [net EXCEPT !.cst[c] = "mount_sent", !.sent = @ + 1,
                          !.calling[c] = "tfs_mount", !.answered[c] = FALSE,
                          !.pipe = Append(@, [op_code |-> TFS_OP_CODE_MOUNT, client |-> c,
                                              session_id |-> -1, call |-> "tfs_mount"])]
    /\ UNCHANGED <<fs, th, nops, ip, res>>

\* tfs_unmount, up to the request written into the server's pipe; it can be
\* called once tfs_mount has opened the server's pipe, also when tfs_mount
\* returned -1
ClientUnmount(c) ==
    /\ net.cst[c] \in {"failed", "in"} /\ net.sent < MaxRequests
    /\ net' = [net EXCEPT !.cst[c] = "unmount_sent", !.sent = @ + 1, !.was = net.cst,
                          !.calling[c] = "tfs_unmount", !.answered[c] = FALSE,
                          !.pipe = Append(@, [op_code |-> TFS_OP_CODE_UNMOUNT, client |-> c,
                                              session_id |-> net.curr_session_id[c],
                                              call |-> "tfs_unmount"])]
    /\ UNCHANGED <<fs, th, nops, ip, res>>

\* tfs_shutdown_after_all_closed, up to the request written into the server's
\* pipe: the frame carries the op code TFS_OP_CODE_OPEN
ClientShutdown(c) ==
    /\ net.cst[c] \in {"failed", "in"} /\ net.sent < MaxRequests
    /\ net' = [net EXCEPT !.cst[c] = "shutdown_sent", !.sent = @ + 1,
                          !.calling[c] = "tfs_shutdown_after_all_closed",
                          !.answered[c] = FALSE,
                          !.pipe = Append(@, [op_code |-> TFS_OP_CODE_OPEN, client |-> c,
                                              session_id |-> net.curr_session_id[c],
                                              call |-> "tfs_shutdown_after_all_closed"])]
    /\ UNCHANGED <<fs, th, nops, ip, res>>

\* the calls of the client API that use a file
FileCalls == {"tfs_open", "tfs_close", "tfs_write", "tfs_read"}

\* tfs_open, tfs_close, tfs_write or tfs_read, up to the request written into
\* the server's pipe: each of the four frames carries the op code
\* TFS_OP_CODE_OPEN
ClientFileOp(c, call) ==
    /\ net.cst[c] \in {"failed", "in"} /\ net.sent < MaxRequests
    /\ net' = [net EXCEPT !.cst[c] = "op_sent", !.sent = @ + 1, !.was = net.cst,
                          !.calling[c] = call, !.answered[c] = FALSE,
                          !.pipe = Append(@, [op_code |-> TFS_OP_CODE_OPEN, client |-> c,
                                              session_id |-> net.curr_session_id[c],
                                              call |-> call])]
    /\ UNCHANGED <<fs, th, nops, ip, res>>

\* the value a call of the client API returns after it read v from its pipe
\* ("if (ret == -1) return -1; return 0;")
ClientReturn(call, v) == IF v = -1 THEN -1 ELSE 0

\* the rest of a call of the client API: the reply is read and the call
\* returns; after the reply to its shutdown request the client exits
ClientReply(c) ==
    /\ net.cst[c] \in {"mount_sent", "unmount_sent", "shutdown_sent", "op_sent"}
    /\ net.inbox[c] # <<>>
    /\ LET v == Head(net.inbox[c]) IN
       net' = [net EXCEPT
                 !.inbox[c] = Tail(@),
                 !.answered[c] = net.cst[c] # "shutdown_sent",
                 !.lost[c] = FALSE,
                 !.got[c] = v,
                 !.ret[c] = ClientReturn(net.calling[c], v),
                 !.curr_session_id[c] = IF net.cst[c] = "mount_sent" THEN v ELSE @,
                 !.cst[c] = IF net.cst[c] = "mount_sent"
                            THEN (IF v = -1 THEN "failed" ELSE "in")
                            ELSE IF net.cst[c] = "shutdown_sent" THEN "gone"
                            ELSE IF net.cst[c] = "op_sent" THEN net.was[c]
                            ELSE (IF v = -1 THEN net.was[c] ELSE "out")]
    /\ UNCHANGED <<fs, th, nops, ip, res>>

ClientNext ==
    \E c \in Clients :
        \/ ClientMount(c) \/ ClientUnmount(c) \/ ClientShutdown(c) \/ ClientReply(c)
        \/ \E call \in FileCalls : ClientFileOp(c, call)

NextServer == ServerNext \/ ClientNext

SpecServer == Init /\ [][NextServer]_vars

\* the server takes its steps, the clients read their replies
SpecServerFair ==
    /\ SpecServer
    /\ WF_vars(ServerNext)
    /\ \A c \in Clients : WF_vars(ClientReply(c))

\* the clients that hold a session
Mounted == {c \in Clients : net.cst[c] \in {"in", "unmount_sent"}}

\* C8: every value the server sends in reply to a mount request is a session
\* id in 0..MAX_SERVER_SESSIONS-1 whose slot is TAKEN and holds the reply
\* descriptor of the client that asked, and no other client that holds a
\* session holds that id.
C8_MountReplyValid ==
    (net.pc = "unmount" /\ net.req.op_code = TFS_OP_CODE_MOUNT)
        => /\ net.last.client = net.req.client
           /\ valid_session_id(net.last.value)
           /\ net.free_session_table[net.last.value] = TAKEN
           /\ net.client_fd[net.last.value] = net.req.client
           /\ \A c \in Mounted \ {net.req.client} :
                 net.curr_session_id[c] # net.last.value

\* C9: a mount that waits for a free slot is answered in the end, and the
\* server never stays blocked: it always comes back to reading requests.
C9_AdmissionLiveness ==
    /\ \A c \in Clients :
         (net.pc = "m_wait" /\ net.req.client = c)
            ~> (net.pc # "m_wait" /\ net.last.client = c)
    /\ []<>(net.pc = "recv")

\* ------------------------------------------------------------------------
\* The value tfs_write returns
\* ------------------------------------------------------------------------
\* the call being made is a tfs_write through an open handle of a file
WriteCalled ==
    /\ Called("write") /\ IsOpen(fs, th'[1].fh)
    /\ valid_inumber(th'[1].pre_ino)

\* C11: a tfs_write that does not return -1 returns the number of bytes the
\* call stored, the increase of the inode's size, and that is the requested
\* length when the request fits in the room the file has left.
C11_WriteReturnsStored ==
    [][ ( WriteCalled /\ th'[1].ret # -1 )
        => LET ino == th'[1].pre_ino IN
           /\ th'[1].ret = fs'.inode_table[ino].i_size - fs.inode_table[ino].i_size
           /\ fs.inode_table[ino].i_size + Len(th'[1].buf) <= Capacity
                 => th'[1].ret = Len(th'[1].buf) ]_vars

\* ------------------------------------------------------------------------
\* The blocks the inodes refer to
\* ------------------------------------------------------------------------
\* the block slots of the inodes in use: direct slots, the pointer to the
\* indirect block, and the entries of the indirect block
Slots(s) ==
    LET used == {i \in 0..INODE_TABLE_SIZE-1 : s.freeinode_ts[i] = TAKEN} IN
    {<<i, "direct", k>> : i \in used, k \in 0..MAX_FILE_BLOCKS-1}
    \cup {<<i, "indirect", 0>> : i \in used}
    \cup {<<i, "entry", k>> : i \in {j \in used : valid_block_number(s.inode_table[j].i_indir_block)},
                              k \in 0..INDIR_BLOCK_SIZE-1}

SlotValue(s, slot) ==
    LET ino == s.inode_table[slot[1]] IN
    CASE slot[2] = "direct" -> ino.i_data_blocks[slot[3]]
      [] slot[2] = "indirect" -> ino.i_indir_block
      [] slot[2] = "entry" -> IndirGet(s, ino.i_indir_block, slot[3], -1)

\* ------------------------------------------------------------------------
\* Files used through open handles only: thread 1 opens files, and writes,
\* reads and closes through handles that are open, one call at a time
\* ------------------------------------------------------------------------
MaxFileOps == 5

\* the call c0 is made and runs to its return; of the call only its name, its
\* handle, the length asked for and its result are kept
FileCall(c0) ==
    LET r0 == Run(fs, c0, 1)
    IN \E ub \in (IF r0.t.ubhit THEN UBVals ELSE {-1}) :
          LET r == IF ub = -1 THEN r0 ELSE Run(fs, [c0 EXCEPT !.ub = ub], 1) IN
          /\ fs' = r.s
          /\ th' = [th EXCEPT ![1] = [Rest(r.t) EXCEPT !.len = c0.len]]
          /\ nops' = nops + 1
          /\ UNCHANGED <<ip, res, net>>

OpenHandles == {h \in 0..MAX_OPEN_FILES-1 : IsOpen(fs, h)}

FileOpen ==
    nops < MaxFileOps /\ \E name \in Paths, flags \in FlagSets : FileCall(CallOpen(name, flags))

FileClose == nops < MaxFileOps /\ \E h \in OpenHandles : FileCall(CallClose(h))

FileWrite == nops < MaxFileOps /\ \E h \in OpenHandles, b \in Buffers : FileCall(CallWrite(h, b))

FileRead == nops < MaxFileOps /\ \E h \in OpenHandles, n \in 0..MaxLen : FileCall(CallRead(h, n))

NextFiles == FileOpen \/ FileClose \/ FileWrite \/ FileRead

SpecFiles == Init /\ [][NextFiles]_vars

\* C12: between calls, no block index is held by two block slots of inodes.
C12_BlockOwnership ==
    \A x, y \in Slots(fs) :
        (x # y /\ valid_block_number(SlotValue(fs, x))) => SlotValue(fs, x) # SlotValue(fs, y)

\* ------------------------------------------------------------------------
\* Size and cursors of a file
\* ------------------------------------------------------------------------
\* the number of blocks the cursors of the inode mark as consumed
Consumed(ino) ==
    ino.i_curr_block
    + (IF ino.i_curr_block = MAX_FILE_BLOCKS /\ ino.i_curr_indir >= 0
       THEN ino.i_curr_indir ELSE 0)

FileInodes(s) ==
    {i \in 0..INODE_TABLE_SIZE-1 :
        s.freeinode_ts[i] = TAKEN /\ s.inode_table[i].i_node_type = T_FILE}

\* C13: between calls, for every file inode with size > 0 the blocks its
\* cursors mark as consumed number size div BLOCK_SIZE, and the file's bytes
\* occupy the offsets 0..size-1: the size is within the capacity and every
\* offset below it lies in a block of the file.
C13_SizeCursorConsistent ==
    \A i \in FileInodes(fs) :
        LET ino == fs.inode_table[i] IN
        ino.i_size > 0
            => /\ Consumed(ino) = ino.i_size \div BLOCK_SIZE
               /\ ino.i_size <= Capacity
               /\ \A j \in 0..ino.i_size-1 : FileBlock(fs, i, j \div BLOCK_SIZE) # -1

\* ------------------------------------------------------------------------
\* One handler and one reply per request
\* ------------------------------------------------------------------------
Handlers == {"mount", "unmount", "open", "close", "write", "read", "shutdown"}

\* C14: the handler the server runs for a request is the one of the request's
\* op code and no other, and when the server is back at reading requests it
\* has written exactly one value in reply, to the pipe of the requesting client.
C14_OneHandlerOneReply ==
    /\ net.pc \in Handlers => net.pc = Dispatch(net.req.op_code)
    /\ (net.pc = "recv" /\ net.req.op_code # 0)
          => /\ Len(net.replies) = 1
             /\ net.replies[1].fd = net.req.client

\* ------------------------------------------------------------------------
\* The end of the server
\* ------------------------------------------------------------------------
\* the server process has ended
Terminated == net.pc \in {"exited", "crashed"}

\* no session is mounted
AllClosed == \A i \in 0..MAX_SERVER_SESSIONS-1 : net.free_session_table[i] = FREE

ShutdownRequested == net.req.call = "tfs_shutdown_after_all_closed"

\* C15: the server ends only while handling a shutdown request and with no
\* session mounted, and a shutdown request the server has read leads to the
\* end of the server.
C15_ShutdownTerminates ==
    /\ [](Terminated => (ShutdownRequested /\ AllClosed))
    /\ ShutdownRequested ~> Terminated

\* ------------------------------------------------------------------------
\* Lock domains
\* ------------------------------------------------------------------------
\* the lock domains in which thread tid holds a lock: the inodes' locks, the
\* open file entries' locks, the lock of the tables
DomainsHeld(tid) ==
    (IF \E i \in 0..INODE_TABLE_SIZE-1 : fs.i_lock[i].w = tid \/ tid \in fs.i_lock[i].r
     THEN {"inode"} ELSE {})
    \cup (IF \E h \in 0..MAX_OPEN_FILES-1 : fs.of_lock[h].w = tid \/ tid \in fs.of_lock[h].r
          THEN {"open file"} ELSE {})
    \cup (IF fs.fs_rwlock = tid THEN {"tables"} ELSE {})

\* C16: no thread holds locks of two lock domains at once.
C16_OneLockDomain == \A tid \in Threads : Cardinality(DomainsHeld(tid)) <= 1

\* ------------------------------------------------------------------------
\* tfs_open of a path that is not there
\* ------------------------------------------------------------------------
\* the call being made is a tfs_open of a valid path that the root directory
\* does not hold
OpenOfMissing ==
    /\ Called("open") /\ valid_pathname(th'[1].name)
    /\ th'[1].pre_ino = -1

\* C17: tfs_open of a path that is not in the root directory, with flags that
\* do not include TFS_O_CREAT, returns -1 and changes nothing: no inode, no
\* directory entry and no open file entry is taken.
C17_OpenMissingFails ==
    [][ ( OpenOfMissing /\ (th'[1].flags \div TFS_O_CREAT) % 2 = 0 )
        => /\ th'[1].ret = -1
           /\ fs' = fs ]_vars

\* an open without TFS_O_CREAT of a missing path has returned -1 while
\* another file was there and open
C17_MissingRefused ==
    /\ th[1].op = "open" /\ th[1].ret = -1 /\ th[1].pre_ino = -1
    /\ (th[1].flags \div TFS_O_CREAT) % 2 = 0
    /\ \E name \in Paths : tfs_lookup(fs, name) >= 0
    /\ \E h \in 0..MAX_OPEN_FILES-1 : IsOpen(fs, h)

\* every entry of the open file table is taken
OpenTableFull(s) == \A h \in 0..MAX_OPEN_FILES-1 : s.free_open_file_entries[h] = TAKEN

\* the root directory has an empty entry
RootHasRoom(s) ==
    FirstEmptyEntry(s.dir_view[s.inode_table[ROOT_DIR_INUM].i_data_blocks[0]], 0) # -1

\* C18: tfs_open with TFS_O_CREAT of a missing path, made when an inode and a
\* directory entry are free but the open file table is full, returns -1 and
\* leaves the file created: the path is found with the new inode number and
\* the inode's slot is TAKEN.
C18_CreatedFileRemains ==
    [][ ( /\ OpenOfMissing /\ (th'[1].flags \div TFS_O_CREAT) % 2 = 1
          /\ FirstFree(fs.freeinode_ts, INODE_TABLE_SIZE) # -1
          /\ RootHasRoom(fs)
          /\ OpenTableFull(fs) )
        => LET inum == FirstFree(fs.freeinode_ts, INODE_TABLE_SIZE) IN
           /\ th'[1].ret = -1
           /\ tfs_lookup(fs', th'[1].name) = inum
           /\ fs'.freeinode_ts[inum] = TAKEN
           /\ fs'.free_open_file_entries = fs.free_open_file_entries ]_vars

\* an open with TFS_O_CREAT of a missing path has returned -1 on a full open
\* file table, and the path is now found
C18_CreatedNotOpened ==
    /\ th[1].op = "open" /\ th[1].ret = -1 /\ th[1].pre_ino = -1
    /\ (th[1].flags \div TFS_O_CREAT) % 2 = 1
    /\ OpenTableFull(fs)
    /\ tfs_lookup(fs, th[1].name) >= 0

\* ------------------------------------------------------------------------
\* A write of no bytes
\* ------------------------------------------------------------------------
\* C19: tfs_write of length 0 through an open handle returns 0 and changes
\* nothing: the inode's size, block slots and cursors, the bitmap of the
\* blocks and the handle's offsets stay as they were.
C19_EmptyWriteIsNoOp ==
    [][ ( WriteCalled /\ Len(th'[1].buf) = 0 )
        => /\ th'[1].ret = 0
           /\ fs' = fs ]_vars

\* a write of length 0 has returned 0 on a file that is empty and has no block
C19_EmptyWriteOnEmptyFile ==
    /\ th[1].op = "write" /\ Len(th[1].buf) = 0 /\ th[1].ret = 0
    /\ IsOpen(fs, th[1].fh) /\ valid_inumber(th[1].pre_ino)
    /\ fs.inode_table[th[1].pre_ino].i_size = 0
    /\ fs.inode_table[th[1].pre_ino].i_data_blocks[0] = -1

\* ------------------------------------------------------------------------
\* The number of bytes tfs_read returns
\* ------------------------------------------------------------------------
\* C20: tfs_read through an open handle returns n = min(max_len, size -
\* read_offset), computed without wrap-around: 0 <= n and no byte past the
\* size is read (read_offset + n <= size; n = 0 when the file was truncated
\* below the read offset), and the read cursor advances by exactly n.
C20_ReadCountInBounds ==
    [][ ( Called("read") /\ IsOpen(fs, th'[1].fh) )
        => LET h == th'[1].fh
               n == th'[1].ret
               size == fs.inode_table[fs.open_file_table[h].of_inumber].i_size
               read_offset == fs.open_file_table[h].of_read_offset
               available == IF read_offset <= size THEN size - read_offset ELSE 0
           IN /\ n >= 0
              /\ n = Min(th'[1].len, available)
              /\ n > 0 => read_offset + n <= size
              /\ fs'.open_file_table[h].of_read_offset = read_offset + n ]_vars

\* ------------------------------------------------------------------------
\* A file request that fails
\* ------------------------------------------------------------------------
\* the server waits for ever inside a handler
Stuck == net.pc \in {"blocked", "m_wait"}

\* C21: for a tfs_open or tfs_close request of a client (the call may be one
\* that fails: a missing path, a handle that is not open) the server neither
\* ends nor blocks, and when it is back at reading requests it has written
\* one value, a negative status, to the reply pipe of that client.
C21_FailureIsOneReply ==
    net.req.call \in {"tfs_open", "tfs_close"}
        => /\ ~Terminated
           /\ ~Stuck
           /\ net.pc = "recv"
                 => /\ Len(net.replies) = 1
                    /\ net.replies[1].fd = net.req.client
                    /\ net.replies[1].value < 0

\* ------------------------------------------------------------------------
\* The op code of a request frame
\* ------------------------------------------------------------------------
\* the op code the protocol gives to each call of the client API
OpCodeOf(call) ==
    CASE call = "tfs_mount" -> TFS_OP_CODE_MOUNT
      [] call = "tfs_unmount" -> TFS_OP_CODE_UNMOUNT
      [] call = "tfs_open" -> TFS_OP_CODE_OPEN
      [] call = "tfs_close" -> TFS_OP_CODE_CLOSE
      [] call = "tfs_write" -> TFS_OP_CODE_WRITE
      [] call = "tfs_read" -> TFS_OP_CODE_READ
      [] call = "tfs_shutdown_after_all_closed" -> TFS_OP_CODE_SHUTDOWN_AFTER_ALL_CLOSED

\* C22: every request frame in the server's pipe starts with the op code of
\* the call of the client API that wrote it: tfs_mount 1, tfs_unmount 2,
\* tfs_open 3, tfs_close 4, tfs_write 5, tfs_read 6,
\* tfs_shutdown_after_all_closed 7.
C22_FrameOpCode ==
    \A k \in 1..Len(net.pipe) : net.pipe[k].op_code = OpCodeOf(net.pipe[k].call)

\* ------------------------------------------------------------------------
\* The client API on its own: the calls of the clients, with a reply pipe
\* that delivers whatever value the other end wrote, or fails
\* ------------------------------------------------------------------------
MaxReply == 2

\* a status, a session id, a file handle or a byte count
ReplyValues == -1..MaxReply

Waiting(c) == net.cst[c] \in {"mount_sent", "unmount_sent", "shutdown_sent", "op_sent"}

\* the other end takes the client's request and writes v into its pipe
PipeDelivers(c) ==
    /\ Waiting(c) /\ net.inbox[c] = <<>>
    /\ net.pipe # <<>> /\ Head(net.pipe).client = c
    /\ \E v \in ReplyValues :
          net' = [net EXCEPT !.pipe = Tail(@), !.req = Head(net.pipe),
                             !.inbox[c] = <<v>>]
    /\ UNCHANGED <<fs, th, nops, ip, res>>

\* read_until_success(client_fd, ...) != 0 in tfs_open, tfs_close, tfs_write
\* or tfs_read: the call returns -1
ClientReadFails(c) ==
    /\ net.cst[c] = "op_sent" /\ net.inbox[c] = <<>>
    /\ net.pipe # <<>> /\ Head(net.pipe).client = c
    /\ net' = [net EXCEPT !.pipe = Tail(@), !.req = Head(net.pipe),
                          !.answered[c] = TRUE, !.lost[c] = TRUE, !.ret[c] = -1,
                          !.cst[c] = net.was[c]]
    /\ UNCHANGED <<fs, th, nops, ip, res>>

NextClient == ClientNext \/ \E c \in Clients : PipeDelivers(c) \/ ClientReadFails(c)

SpecClient == Init /\ [][NextClient]_vars

\* C23: a tfs_open, tfs_write or tfs_read of the client API returns the value
\* it read from its reply pipe, the file handle or the byte count the server
\* wrote, and -1 when that value is negative or the read failed.
C23_ClientReturnsReply ==
    \A c \in Clients :
        (net.answered[c] /\ net.calling[c] \in {"tfs_open", "tfs_write", "tfs_read"})
            => net.ret[c] = (IF net.lost[c] \/ net.got[c] < 0 THEN -1 ELSE net.got[c])

\* ------------------------------------------------------------------------
\* tfs_init called again: thread 1 uses files through open handles and may
\* call tfs_init at any time, one call at a time
\* ------------------------------------------------------------------------
MaxInitOps == 4

\* tfs_init is called and returns; the frame keeps the number inode_create
\* returned for the root
TfsInit ==
    /\ nops < MaxInitOps
    /\ LET r == tfs_init(fs) IN
       /\ fs' = r.s
       /\ th' = [th EXCEPT ![1] = [Frame0 EXCEPT !.op = "tfs_init", !.ret = r.ret,
                                                 !.inum = r.root]]
    /\ nops' = nops + 1
    /\ UNCHANGED <<ip, res, net>>

InitOpen ==
    nops < MaxInitOps /\ \E name \in Paths, flags \in FlagSets : FileCall(CallOpen(name, flags))

InitClose == nops < MaxInitOps /\ \E h \in OpenHandles : FileCall(CallClose(h))

InitWrite == nops < MaxInitOps /\ \E h \in OpenHandles, b \in Buffers : FileCall(CallWrite(h, b))

NextInit == TfsInit \/ InitOpen \/ InitClose \/ InitWrite

SpecInit == Init /\ [][NextInit]_vars

\* inode inum is a directory of size BLOCK_SIZE whose only block is in direct
\* slot 0, with every directory entry empty
EmptyDirectory(s, inum) ==
    LET ino == s.inode_table[inum] IN
    /\ s.freeinode_ts[inum] = TAKEN
    /\ ino.i_node_type = T_DIRECTORY
    /\ ino.i_size = BLOCK_SIZE
    /\ valid_block_number(ino.i_data_blocks[0])
    /\ s.free_blocks[ino.i_data_blocks[0]] = TAKEN
    /\ \A k \in 1..MAX_FILE_BLOCKS-1 : ino.i_data_blocks[k] = -1
    /\ ino.i_indir_block = -1
    /\ \A e \in 0..MAX_DIR_ENTRIES-1 : s.dir_view[ino.i_data_blocks[0]][e].d_inumber = -1

\* C24: after tfs_init returns 0, inode 0 is TAKEN and is a directory of size
\* BLOCK_SIZE with one block, in direct slot 0, the other slots -1, no
\* indirect block and every directory entry empty; every other inode, every
\* other block and every open file entry is FREE; tfs_init returns -1
\* whenever the root it created is not inode 0.
C24_InitLeavesRootOnly ==
    [][ Called("tfs_init")
        => /\ th'[1].ret = (IF th'[1].inum = ROOT_DIR_INUM THEN 0 ELSE -1)
           /\ th'[1].ret = 0
                 => /\ EmptyDirectory(fs', ROOT_DIR_INUM)
                    /\ \A i \in 1..INODE_TABLE_SIZE-1 : fs'.freeinode_ts[i] = FREE
                    /\ \A k \in 0..DATA_BLOCKS-1 :
                          k # fs'.inode_table[ROOT_DIR_INUM].i_data_blocks[0]
                             => fs'.free_blocks[k] = FREE
                    /\ \A h \in 0..MAX_OPEN_FILES-1 :
                          fs'.free_open_file_entries[h] = FREE ]_vars

\* tfs_init has returned 0 in a file system that held a file with blocks and
\* an open handle, and the block that file had first is free again
C24_InitAfterUse ==
    /\ th[1].op = "tfs_init" /\ th[1].ret = 0
    /\ fs.inode_table[1].i_size > 0
    /\ valid_block_number(fs.inode_table[1].i_data_blocks[0])
    /\ fs.free_blocks[fs.inode_table[1].i_data_blocks[0]] = FREE
    /\ fs.freeinode_ts[1] = FREE
    /\ fs.open_file_table[0].of_inumber = 1

\* ------------------------------------------------------------------------
\* tfs_open with TFS_O_CREAT of a path that is there
\* ------------------------------------------------------------------------
\* C25: tfs_open with the flag TFS_O_CREAT alone, of a path that exists, made
\* when the open file table has a free entry, opens the file that is there:
\* it returns a handle that was free, bound to the existing inode with both
\* cursors 0, takes no inode, adds no directory entry and leaves the sizes,
\* the block slots and the bitmap of the blocks as they were.
C25_CreateOpensExisting ==
    [][ ( /\ Called("open") /\ th'[1].flags = TFS_O_CREAT
          /\ valid_inumber(th'[1].pre_ino)
          /\ ~OpenTableFull(fs) )
        => LET h == th'[1].ret IN
           /\ valid_file_handle(h)
           /\ ~IsOpen(fs, h) /\ IsOpen(fs', h)
           /\ fs'.open_file_table[h] =
                 [of_inumber |-> th'[1].pre_ino, of_read_offset |-> 0, of_write_offset |-> 0]
           /\ fs'.freeinode_ts = fs.freeinode_ts
           /\ fs'.dir_view = fs.dir_view
           /\ fs'.inode_table = fs.inode_table
           /\ fs'.free_blocks = fs.free_blocks ]_vars

\* an open with TFS_O_CREAT alone has returned a second handle of a file that
\* holds bytes
C25_SecondHandle ==
    /\ th[1].op = "open" /\ th[1].flags = TFS_O_CREAT /\ th[1].ret >= 0
    /\ valid_inumber(th[1].pre_ino) /\ th[1].pre_size > 0
    /\ fs.inode_table[th[1].pre_ino].i_size = th[1].pre_size
    /\ \E h \in 0..MAX_OPEN_FILES-1 :
          /\ h # th[1].ret /\ IsOpen(fs, h)
          /\ fs.open_file_table[h].of_inumber = th[1].pre_ino

\* ------------------------------------------------------------------------
\* What a truncation releases
\* ------------------------------------------------------------------------
\* the step is a tfs_open that truncates the file of inode inum: the size was
\* above 0 and is 0 after the call
Truncates(inum) ==
    /\ Called("open")
    /\ fs.inode_table[inum].i_size > 0
    /\ fs'.inode_table[inum].i_size = 0

\* C26: after a tfs_open with TFS_O_TRUNC of a file of size > 0, every block
\* the inode referred to before the call (the direct blocks, the indirect
\* block and every block entered in the indirect block, the one at the
\* current indirect slot included) is FREE in the bitmap, and the inode
\* refers to no indirect block.
C26_TruncReleasesAll ==
    [][ \A inum \in FileInodes(fs) :
          Truncates(inum)
            => /\ \A b \in BlocksOf(fs, inum) : fs'.free_blocks[b] = FREE
               /\ fs'.inode_table[inum].i_indir_block = -1 ]_vars

\* ------------------------------------------------------------------------
\* One thread writing to one file, step by step: the file is created and
\* opened, then written through the handle with buffers of any lengths
\* ------------------------------------------------------------------------
MaxWrites == 3

InitWrites ==
    /\ fs = Run(InitFs, CallOpen(PathOf(1), TFS_O_CREAT), 1).s
    /\ th = [i \in Threads |-> Frame0]
    /\ nops = 0
    /\ ip = [i \in Threads |-> 1]
    /\ res = [i \in Threads |-> <<>>]
    /\ net = NetInit

\* the next tfs_write through handle 0 is called; what its undefined reads
\* yield, if it makes any, is chosen here
WriterBegin ==
    /\ ip[1] <= MaxWrites
    /\ \E b \in Buffers, ub \in UBVals : Begin(1, [CallWrite(0, b) EXCEPT !.ub = ub])

NextWrites == WriterBegin \/ ThreadStep(1)

SpecWrites == InitWrites /\ [][NextWrites]_vars

\* C27: whenever a tfs_write is about to index the indirect block with the
\* inode's cursor i_curr_indir, the cursor is one of the block's slots,
\* 0..INDIR_BLOCK_SIZE-1.
C27_IndirCursorBound ==
    \A tid \in Threads :
        th[tid].pc = "w_slot"
            => /\ fs.inode_table[th[tid].inum].i_curr_indir >= 0
               /\ fs.inode_table[th[tid].inum].i_curr_indir <= INDIR_BLOCK_SIZE - 1

\* ------------------------------------------------------------------------
\* Two threads, each making the first write to the same empty file through a
\* handle of its own; a thread writes at most one block
\* ------------------------------------------------------------------------
\* the file system after /a was created and opened a second time: handles 0, 1
TwoHandles ==
    LET o == Run(InitFs, CallOpen(PathOf(1), TFS_O_CREAT), 1)
        p == Run(o.s, CallOpen(PathOf(1), 0), 1)
    IN p.s

InitFirstWrites ==
    /\ fs = TwoHandles
    /\ th = [i \in Threads |-> Frame0]
    /\ nops = 0
    /\ ip = [i \in Threads |-> 1]
    /\ res = [i \in Threads |-> <<>>]
    /\ net = NetInit

FirstWriteBegin(tid) ==
    /\ ip[tid] = 1
    /\ \E n \in 1..BLOCK_SIZE :
          Begin(tid, CallWrite(tid - 1, Pattern(n, IF tid = 1 THEN 1 ELSE OtherByte(1))))

NextFirstWrites == \E tid \in Threads : FirstWriteBegin(tid) \/ ThreadStep(tid)

SpecFirstWrites == InitFirstWrites /\ [][NextFirstWrites]_vars

\* the blocks marked TAKEN
TakenBlocks(s) == {b \in 0..DATA_BLOCKS-1 : s.free_blocks[b] = TAKEN}

\* C28: when two threads have each made the first non-empty write to the same
\* empty file, through separate handles, the file has its MAX_FILE_BLOCKS
\* direct blocks, distinct and TAKEN, and MAX_FILE_BLOCKS blocks were taken
\* from the block store besides the block of the root directory.
C28_EagerAllocationOnce ==
    AllDone(1)
        => LET inum == tfs_lookup(fs, PathOf(1))
               direct == {fs.inode_table[inum].i_data_blocks[k] : k \in 0..MAX_FILE_BLOCKS-1}
           IN /\ Cardinality(direct) = MAX_FILE_BLOCKS
              /\ direct \subseteq TakenBlocks(fs)
              /\ Cardinality(TakenBlocks(fs)) = 1 + MAX_FILE_BLOCKS

\* ------------------------------------------------------------------------
\* Two threads that close the same handles: files /a and /b are open through
\* handles 0 and 1, and each thread closes handle 0, then handle 1
\* ------------------------------------------------------------------------
InitClosers ==
    /\ fs = Run(Run(InitFs, CallOpen(PathOf(1), TFS_O_CREAT), 1).s,
                CallOpen(PathOf(2), TFS_O_CREAT), 1).s
    /\ th = [i \in Threads |-> Frame0]
    /\ nops = 0
    /\ ip = [i \in Threads |-> 1]
    /\ res = [i \in Threads |-> <<>>]
    /\ net = NetInit

\* the next tfs_close of the thread is called; what an undefined call in it
\* yields, if it makes one, is chosen here
CloserBegin(tid) ==
    /\ ip[tid] <= MAX_OPEN_FILES
    /\ \E ub \in UBVals : Begin(tid, [CallClose(ip[tid] - 1) EXCEPT !.ub = ub])

NextClosers == \E tid \in Threads : CloserBegin(tid) \/ ThreadStep(tid)

SpecClosers == InitClosers /\ [][NextClosers]_vars

\* C29: when two threads have both called tfs_close on the same open handle,
\* one of the two calls has returned 0 and the other -1.
C29_OneCloseSucceeds ==
    \A k \in 1..MAX_OPEN_FILES :
        (\A tid \in Threads : Len(res[tid]) >= k)
            => {res[tid][k].ret : tid \in Threads} = {0, -1}

\* ------------------------------------------------------------------------
\* A truncating open and a write on the same file: /a holds bytes and is open
\* through handle 0; thread 1 opens it with TFS_O_TRUNC while thread 2 writes
\* at most one block through handle 0
\* ------------------------------------------------------------------------
\* the file system after /a was created and buffer written to it, handle 0
\* still open
WrittenAndOpen(buffer) ==
    LET o == Run(InitFs, CallOpen(PathOf(1), TFS_O_CREAT), 1)
        w == Run(o.s, CallWrite(o.t.ret, buffer), 1)
    IN w.s

InitTruncRace ==
    /\ \E n \in 1..MaxLen : fs = WrittenAndOpen(Pattern(n, 1))
    /\ th = [i \in Threads |-> Frame0]
    /\ nops = 0
    /\ ip = [i \in Threads |-> 1]
    /\ res = [i \in Threads |-> <<>>]
    /\ net = NetInit

TruncBegin == ip[1] = 1 /\ Begin(1, CallOpen(PathOf(1), TFS_O_TRUNC))

RaceWriteBegin ==
    ip[2] = 1 /\ \E n \in 1..BLOCK_SIZE : Begin(2, CallWrite(0, Pattern(n, OtherByte(1))))

NextTruncRace == TruncBegin \/ RaceWriteBegin \/ \E tid \in Threads : ThreadStep(tid)

SpecTruncRace == InitTruncRace /\ [][NextTruncRace]_vars

\* every block that holds bytes of the file of inode inum is there and TAKEN
BytesInTakenBlocks(s, inum) ==
    \A k \in 0..((Min(s.inode_table[inum].i_size, Capacity) - 1) \div BLOCK_SIZE) :
        /\ FileBlock(s, inum, k) # -1
        /\ s.free_blocks[FileBlock(s, inum, k)] = TAKEN

\* C30: when a tfs_open with TFS_O_TRUNC and a tfs_write on the same file have
\* both returned, every file inode with size > 0 has the blocks that hold its
\* bytes marked TAKEN.
C30_TruncWriteRace ==
    AllDone(1)
        => \A inum \in FileInodes(fs) :
              fs.inode_table[inum].i_size > 0 => BytesInTakenBlocks(fs, inum)

\* ------------------------------------------------------------------------
\* Threads that call the library on valid arguments: /a holds one byte and is
\* open through handle 0; each thread makes MaxLibCalls calls, each of them a
\* creating tfs_open of a valid path or a tfs_close, a tfs_write of one block
\* or a tfs_read of one block on a handle that is open when the call is made
\* ------------------------------------------------------------------------
MaxLibCalls == 2

InitLib ==
    /\ fs = WrittenAndOpen(Pattern(1, 1))
    /\ th = [i \in Threads |-> Frame0]
    /\ nops = 0
    /\ ip = [i \in Threads |-> 1]
    /\ res = [i \in Threads |-> <<>>]
    /\ net = NetInit

LibOpen(tid) ==
    ip[tid] <= MaxLibCalls
        /\ \E name \in Paths : Begin(tid, CallOpen(name, TFS_O_CREAT))

\* what an undefined call in tfs_close yields, if it makes one, is chosen here
LibClose(tid) ==
    ip[tid] <= MaxLibCalls
        /\ \E h \in OpenHandles, ub \in {-1, 0} : Begin(tid, [CallClose(h) EXCEPT !.ub = ub])

LibWrite(tid) ==
    ip[tid] <= MaxLibCalls
        /\ \E h \in OpenHandles : Begin(tid, CallWrite(h, Pattern(BLOCK_SIZE, 1)))

LibRead(tid) ==
    ip[tid] <= MaxLibCalls
        /\ \E h \in OpenHandles : Begin(tid, CallRead(h, BLOCK_SIZE))

NextLib ==
    \E tid \in Threads :
        LibOpen(tid) \/ LibClose(tid) \/ LibWrite(tid) \/ LibRead(tid) \/ ThreadStep(tid)

SpecLib == InitLib /\ [][NextLib]_vars

\* thread tid is in a call and waits for a lock
Blocked(tid) == th[tid].pc # "done" /\ ~CanStep(fs, th[tid], tid)

\* C31: threads call tfs_open, tfs_close, tfs_write and tfs_read on valid
\* arguments: the threads that are in a call are never all blocked on a lock,
\* and a thread that is not in a call holds no inode lock, no open file lock
\* and not the lock of the tables.
C31_NoDeadlockNoLockKept ==
    /\ (\E tid \in Threads : th[tid].pc # "done") => (\E tid \in Threads : ~Blocked(tid) /\ th[tid].pc # "done")
    /\ \A tid \in Threads : th[tid].pc = "done" => DomainsHeld(tid) = {}

\* ------------------------------------------------------------------------
\* The allocators used concurrently: some blocks are taken beforehand, then
\* each thread makes MaxAllocCalls calls of data_block_alloc and inode_create
\* ------------------------------------------------------------------------
MaxAllocCalls == 2

\* the file system after k blocks more were allocated
RECURSIVE Prefilled(_)
Prefilled(k) == IF k = 0 THEN InitFs ELSE data_block_alloc(Prefilled(k - 1)).s

InitAlloc ==
    /\ \E k \in 0..DATA_BLOCKS-1 : fs = Prefilled(k)
    /\ th = [i \in Threads |-> Frame0]
    /\ nops = 0
    /\ ip = [i \in Threads |-> 1]
    /\ res = [i \in Threads |-> <<>>]
    /\ net = NetInit

BlockAllocBegin(tid) == ip[tid] <= MaxAllocCalls /\ Begin(tid, CallDataBlockAlloc)

InodeCreateBegin(tid) ==
    ip[tid] <= MaxAllocCalls
        /\ \E n_type \in {T_FILE, T_DIRECTORY} : Begin(tid, CallInodeCreate(n_type))

NextAlloc == \E tid \in Threads : BlockAllocBegin(tid) \/ InodeCreateBegin(tid) \/ ThreadStep(tid)

SpecAlloc == InitAlloc /\ [][NextAlloc]_vars

\* index i is the lowest FREE entry of tbl, of n entries
LowestFree(tbl, n, i) == i \in 0..n-1 /\ tbl[i] = FREE /\ \A j \in 0..n-1 : j < i => tbl[j] = TAKEN

\* thread tid takes the step in which its call scans a table: the scan of
\* free_blocks by data_block_alloc, called on its own or by inode_create, or
\* the scan of freeinode_ts by inode_create
BlockScan(tid) == th[tid].pc \in {"ba_alloc", "ic_alloc"} /\ th'[tid] # th[tid]

InodeScan(tid) == th[tid].pc = "ic_scan" /\ th'[tid] # th[tid]

\* the results of the calls of op that succeeded, as pairs <<thread, call>>
Successes(op) ==
    {c \in Threads \X (1..MaxAllocCalls) :
        Len(res[c[1]]) >= c[2] /\ res[c[1]][c[2]].op = op /\ res[c[1]][c[2]].ret >= 0}

\* C32: in every interleaving of data_block_alloc and inode_create calls, a
\* scan that finds a FREE entry takes the lowest one (FREE before the scan,
\* TAKEN after it, nothing else changed in that table) and a scan fails only
\* when every entry of its table is TAKEN; inode_create returns -1 only after
\* a failed scan, of the inode table or of the blocks for its directory; no
\* two successful calls of the same allocator return the same index.
C32_AllocatorExclusion ==
    /\ [][ \A tid \in Threads :
            /\ BlockScan(tid) =>
                 IF fs'.free_blocks = fs.free_blocks
                 THEN /\ \A b \in 0..DATA_BLOCKS-1 : fs.free_blocks[b] = TAKEN
                      /\ th'[tid].pc = "done" /\ th'[tid].ret = -1
                 ELSE \E b \in 0..DATA_BLOCKS-1 :
                        /\ LowestFree(fs.free_blocks, DATA_BLOCKS, b)
                        /\ fs'.free_blocks = [fs.free_blocks EXCEPT ![b] = TAKEN]
                        /\ th'[tid].pc = "done" => th'[tid].ret = b
                        /\ th'[tid].pc # "done" => th'[tid].blk = b
            /\ InodeScan(tid) =>
                 IF fs'.freeinode_ts = fs.freeinode_ts
                 THEN /\ \A i \in 0..INODE_TABLE_SIZE-1 : fs.freeinode_ts[i] = TAKEN
                      /\ th'[tid].pc = "done" /\ th'[tid].ret = -1
                 ELSE \E i \in 0..INODE_TABLE_SIZE-1 :
                        /\ LowestFree(fs.freeinode_ts, INODE_TABLE_SIZE, i)
                        /\ fs'.freeinode_ts = [fs.freeinode_ts EXCEPT ![i] = TAKEN]
                        /\ th'[tid].pc = "done" => th'[tid].ret = i
                        /\ th'[tid].pc # "done" => th'[tid].inum = i
            /\ (th[tid].pc = "ic_init" /\ th'[tid].pc = "done") => th'[tid].ret = th[tid].inum ]_vars
    /\ [](\A op \in {"data_block_alloc", "inode_create"} :
            \A c, d \in Successes(op) :
                c # d => res[c[1]][c[2]].ret # res[d[1]][d[2]].ret)

\* a thread is inside inode_create for a directory, between its scan of the
\* inode table and its block allocation, and meanwhile the other thread has
\* had one call that succeeded and one that returned -1
C32_FailedWhileCreating ==
    \E tid, other \in Threads :
        /\ tid # other
        /\ th[tid].pc = "ic_alloc"
        /\ Len(res[other]) = MaxAllocCalls
        /\ \E k \in 1..MaxAllocCalls : res[other][k].ret >= 0
        /\ \E k \in 1..MaxAllocCalls : res[other][k].ret = -1

\* ------------------------------------------------------------------------
\* File names of every length up to MAX_FILE_NAME: thread 1 opens paths with
\* TFS_O_CREAT and closes handles, one call at a time
\* ------------------------------------------------------------------------
\* valid paths whose names have 1 to MAX_FILE_NAME characters; two of them
\* differ in their last character only
LongPaths ==
    {<<"/">> \o SubSeq(<<"a", "b", "c", "d">>, 1, n) : n \in 1..MAX_FILE_NAME}
        \cup {<<"/">> \o SubSeq(<<"a", "b", "d", "c">>, 1, n) : n \in 1..MAX_FILE_NAME}

NamesOpen == nops < MaxOps /\ \E name \in LongPaths : Call(CallOpen(name, TFS_O_CREAT))

NamesClose == nops < MaxOps /\ \E h \in OpenHandles : Call(CallClose(h))

NextNames == NamesOpen \/ NamesClose

SpecNames == Init /\ [][NextNames]_vars

\* C33: when tfs_open(path, TFS_O_CREAT) of a valid path that tfs_lookup does
\* not find returns a handle, tfs_lookup(path) returns the inode of that
\* handle; and when the next call is a tfs_open(path, TFS_O_CREAT) of the same
\* path that returns a handle, that handle is bound to the same inode.
C33_CreateLookupRoundTrip ==
    [][ /\ ( /\ Called("open") /\ th'[1].pre_ino = -1 /\ th'[1].ret >= 0 )
            => tfs_lookup(fs', th'[1].name) = fs'.open_file_table[th'[1].ret].of_inumber
        /\ ( /\ Called("open") /\ th'[1].ret >= 0
             /\ th[1].op = "open" /\ th[1].pre_ino = -1 /\ th[1].ret >= 0
             /\ th[1].name = th'[1].name )
            => fs'.open_file_table[th'[1].ret].of_inumber
                  = fs.open_file_table[th[1].ret].of_inumber ]_vars

\* the root directory has no empty entry
RootFull(s) ==
    \A e \in 0..MAX_DIR_ENTRIES-1 :
        s.dir_view[s.inode_table[ROOT_DIR_INUM].i_data_blocks[0]][e].d_inumber # -1

\* C34: when the root directory has no empty entry, tfs_open with TFS_O_CREAT
\* of a valid path that tfs_lookup does not find returns -1 and leaves the
\* bitmap of the inodes, the directory entries and the open file table as
\* they were.
C34_FullDirectoryRollsBack ==
    [][ ( /\ Called("open") /\ th'[1].flags = TFS_O_CREAT
          /\ valid_pathname(th'[1].name) /\ th'[1].pre_ino = -1
          /\ RootFull(fs) )
        => /\ th'[1].ret = -1
           /\ fs'.freeinode_ts = fs.freeinode_ts
           /\ fs'.dir_view = fs.dir_view
           /\ fs'.free_open_file_entries = fs.free_open_file_entries
           /\ fs'.open_file_table = fs.open_file_table ]_vars

\* such an open has returned -1 on a full directory, and the inode it had
\* taken is FREE again: a FREE slot holds the fields of a new file inode
C34_InodeGivenBack ==
    /\ th[1].op = "open" /\ th[1].pre_ino = -1 /\ th[1].ret = -1
    /\ RootFull(fs)
    /\ \E i \in 0..INODE_TABLE_SIZE-1 :
          /\ fs.freeinode_ts[i] = FREE
          /\ fs.inode_table[i].i_node_type = T_FILE
          /\ fs.inode_table[i].i_indir_block = -1

\* the tables, the inodes and the blocks of s: everything but the locks
Stored(s) ==
    <<s.inode_table, s.freeinode_ts, s.fs_data, s.dir_view, s.free_blocks,
      s.open_file_table, s.free_open_file_entries>>

\* C35: tfs_read and tfs_write called with a handle that is in range and not
\* open return -1 and change no inode, no block, no bitmap and no entry of the
\* open file table.
C35_ClosedHandleRefused ==
    [][ ( /\ Called("read") \/ Called("write")
          /\ valid_file_handle(th'[1].fh)
          /\ fs.free_open_file_entries[th'[1].fh] = FREE )
        => /\ th'[1].ret = -1
           /\ Stored(fs') = Stored(fs) ]_vars

\* the entries of the open file table other than h
OtherEntries(s, h) == [g \in (0..MAX_OPEN_FILES-1) \ {h} |-> s.open_file_table[g]]

CreatorCall(tid, k) ==
    IF k = 1 THEN CallOpen(PathOf(1), TFS_O_CREAT) ELSE CallOpen(PathOf(tid), TFS_O_CREAT)

CreatorBegin(tid) == ip[tid] <= 2 /\ Begin(tid, CreatorCall(tid, ip[tid]))

NextCreators == \E tid \in Threads : CreatorBegin(tid) \/ ThreadStep(tid)

SpecCreators == Init /\ [][NextCreators]_vars

\* no thread is inside a call
Quiescent == \A tid \in Threads : th[tid].pc = "done"

\* the entries of the root directory that are in use
RootEntries(s) ==
    LET d == s.dir_view[s.inode_table[ROOT_DIR_INUM].i_data_blocks[0]] IN
    {e \in 0..MAX_DIR_ENTRIES-1 : d[e].d_inumber # -1}

RootName(s, e) == s.dir_view[s.inode_table[ROOT_DIR_INUM].i_data_blocks[0]][e].d_name

\* C37: whenever no thread is inside a call, no two entries of the root
\* directory that are in use carry the same name, and when both threads have
\* got a handle from their tfs_open of /a with TFS_O_CREAT, the two handles
\* are bound to the same inode.
C37_UniqueNames ==
    Quiescent
        => /\ \A e, f \in RootEntries(fs) : e # f => RootName(fs, e) # RootName(fs, f)
           /\ ( \A tid \in Threads : Len(res[tid]) >= 1 /\ res[tid][1].ret >= 0 )
                => fs.open_file_table[res[1][1].ret].of_inumber
                      = fs.open_file_table[res[2][1].ret].of_inumber

\* C38: between calls, every block marked TAKEN is held by a block slot of an
\* inode in use: a direct slot, the pointer to the indirect block or an entry
\* of the indirect block.
C38_NoLeakedBlocks ==
    \A b \in 0..DATA_BLOCKS-1 :
        fs.free_blocks[b] = TAKEN => \E slot \in Slots(fs) : SlotValue(fs, slot) = b

\* the session slots that are TAKEN
TakenSessions(n) == {i \in 0..MAX_SERVER_SESSIONS-1 : n.free_session_table[i] = TAKEN}

\* C39: whenever the server waits for the next request, active_session_counter
\* is the number of TAKEN session slots and lies between 0 and
\* MAX_SERVER_SESSIONS.
C39_SessionAccounting ==
    net.pc = "recv"
        => /\ net.active_session_counter = Cardinality(TakenSessions(net))
           /\ net.active_session_counter >= 0
           /\ net.active_session_counter <= MAX_SERVER_SESSIONS

\* C40: whenever a handler has returned (the server is about to run the next
\* handler or to read the next request) server_mutex is unlocked, and the
\* server never blocks on server_mutex.
C40_MutexReleased ==
    /\ net.pc \in Handlers \cup {"recv"} => ~net.mutex
    /\ net.pc # "blocked"

====
